---------------------------- MODULE Spec2Model ----------------------------
(***************************************************************************)
(* Stock ledger, Work Order reservation/consumption engine and workflow    *)
(* governor of mro-inventory, modelled from                                *)
(*   src/inventory/services/stock_service.py                               *)
(*   src/workorders/services/workorder_stock_service.py                    *)
(*   src/workorders/services/workorder_workflow_service.py                 *)
(* Quantities are exact decimals in the code; here they are integers       *)
(* counted in the smallest unit (0.001).                                   *)
(***************************************************************************)
EXTENDS Integers, Sequences, FiniteSets, TLC

\* ------------------------------------------------------------------ bounds
MaxQty == 2      \* largest quantity a request carries
MaxMov == 3      \* longest movement log explored
MaxRes == 1      \* most Reservation rows explored
MaxReturn == 4   \* longest movement log explored where batches are returned
MaxHeld == 2     \* most Reservation rows explored where an order is cancelled
MaxLog == 5      \* longest movement log two transactions in flight may leave
MaxSetup == 1    \* most movements registered before the transactions in flight
LineQty == 1     \* the quantity of each line of a consume batch in flight
MaxOriginals == 2  \* most movements registered before two voids in flight
TickSeconds == 1800  \* the step of the clock, in seconds
MaxTicks == 9    \* most steps of the clock explored
MaxAlerts == 3   \* most alerts sent by callers that take turns
RaceTicks == 2   \* most steps of the clock explored with calls in flight
ReportStepHours == 10  \* the step of the clock where daily reports run, in hours
MaxReportSteps == 3    \* most such steps explored

\* --------------------------------------------------------- reference data
Items == {1}
Locations == {1, 2}
Keys == Items \X Locations

IN_ == "IN"
OUT == "OUT"
ADJ == "ADJ"
MovementType == {IN_, OUT, ADJ}

WorkOrders == {1}
\* two work orders, where one may name what the other holds
OrderPair == {1, 2}
\* WorkOrder.Status
DRAFT == "DRAFT"
APPROVED == "APPROVED"
IN_PROGRESS == "IN_PROGRESS"
PAUSED == "PAUSED"
COMPLETED == "COMPLETED"
CANCELLED == "CANCELLED"
Status == {DRAFT, APPROVED, IN_PROGRESS, PAUSED, COMPLETED, CANCELLED}
\* Reservation.Status
ACTIVE == "ACTIVE"
RELEASED == "RELEASED"
CONSUMED == "CONSUMED"
VOIDED == "VOIDED"

\* Severity
MEDIUM == 1
HIGH == 2
CRITICAL == 3
Severities == {MEDIUM, HIGH, CRITICAL}
\* settings.NOTIFY_COOLDOWN_*_MIN, at their defaults
NOTIFY_COOLDOWN_CRITICAL_MIN == 60
NOTIFY_COOLDOWN_HIGH_MIN == 240
NOTIFY_COOLDOWN_MEDIUM_MIN == 720
\* the keys of the alert throttle: (item, location, severity)
AlertKeys == Items \X Locations \X Severities
Callers == {1, 2, 3}
\* NotificationStatus
PENDING == "PENDING"
SENT == "SENT"
SKIPPED == "SKIPPED"
FAILED == "FAILED"
\* settings.MRO_DAILY_REPORT_COOLDOWN_HOURS, at its default
MRO_DAILY_REPORT_COOLDOWN_HOURS == 20
\* the runs of send_mro_daily_report for one day key
Runs == {1, 2, 3}
NoEvent == [exists |-> FALSE]
NoEntry == 0 - 1

\* request inputs
QtyInputs == 0..MaxQty
DeltaInputs == (0 - MaxQty)..MaxQty
SetInputs == (0 - 1)..MaxQty
Reasons == {" ", "conteo"}

VARIABLES
    snapshots,     \* StockSnapshot rows: (item, location) -> [exists, on_hand, reserved]
    movements,     \* InventoryMovement rows, in id order (id = index)
    workorders,    \* WorkOrder rows: id -> [status, started_at]
    wo_lines,      \* WorkOrderLine rows: (work_order, item) -> cached quantities
    reservations,  \* Reservation rows, in id order
    issues,        \* WorkOrderIssue rows (the work order of each), in id order
    issue_lines,   \* WorkOrderIssueLine rows, in id order
    returns,       \* WorkOrderReturn rows (the work order of each), in id order
    return_lines,  \* WorkOrderReturnLine rows, in id order
    last,          \* the last request and what its caller observed
    watch,         \* the operations whose requests are recorded in last
    txn,           \* the transactions in flight: request, row locks held, rows read
    base,          \* the store as the first transaction in flight found it
    cache,         \* the alert throttle's cache: key -> expiry time, NoEntry if absent
    clock,         \* the time, in seconds
    callers,       \* the should_send calls in flight: where each is and what it got
    alerts,        \* the times at which should_send answered True, per key
    event,         \* the NotificationEvent row of the daily report of one day
    runs,          \* the runs of the daily-report command: where each is, what it did
    mails          \* the daily reports handed to send_mail, in order

store == <<snapshots, movements, workorders, wo_lines, reservations, issues,
           issue_lines, returns, return_lines>>
notifier == <<cache, clock, callers, alerts>>
report == <<event, runs, mails>>
vars == <<store, last, watch, txn, base, notifier, report>>

\* no NotificationEvent yet, no run started, nothing mailed
InitReport ==
    /\ event = NoEvent
    /\ runs = [r \in Runs |-> [pc |-> "idle"]]
    /\ mails = <<>>

\* nothing cached, no call in flight, no alert sent
InitNotifier ==
    /\ cache = [key \in AlertKeys |-> NoEntry]
    /\ clock = 0
    /\ callers = [c \in Callers |-> [pc |-> "idle"]]
    /\ alerts = [key \in AlertKeys |-> <<>>]

\* the persistent store as one value, as a transaction sees it
DB == [snap |-> snapshots, mov |-> movements, wo |-> workorders, lines |-> wo_lines,
       res |-> reservations, issues |-> issues, issue_lines |-> issue_lines,
       returns |-> returns, return_lines |-> return_lines]

NoSnapshot == [exists |-> FALSE, on_hand |-> 0, reserved |-> 0]

\* str.strip() on the reasons the requests carry
strip(s) == IF s = " " THEN "" ELSE s

\* StockSnapshot.available
available(s) == s.on_hand - s.reserved

\* StockService._validate_common (item, location and actor are always given)
validate_common(quantity) == quantity > 0

\* StockService._get_snapshot_for_update: get_or_create of the row
get_snapshot_for_update(db, k) ==
    IF db.snap[k].exists THEN db
    ELSE [db EXCEPT !.snap[k] = [exists |-> TRUE, on_hand |-> 0, reserved |-> 0]]

\* InventoryMovement.objects.create
NewMovement(k, type, qty, isvoid, voidof) ==
    [item |-> k[1], location |-> k[2], movement_type |-> type, quantity |-> qty,
     is_void |-> isvoid, void_of |-> voidof]

\* the fields the result dataclasses require (none has a default)
StockResultFields == {"item_id", "location_id", "new_on_hand", "movement_id"}
TransferResultFields == {"item_id", "from_location_id", "to_location_id", "qty",
                         "from_new_on_hand", "to_new_on_hand", "out_movement_id",
                         "in_movement_id"}
VoidResultFields == {"original_id", "void_id", "item_id", "location_id", "new_on_hand"}
ReserveResultFields == {"item_id", "location_id", "new_reserved", "new_available"}

\* a frozen dataclass's generated __init__: TypeError unless exactly the
\* declared fields are given
dataclass_init(fields, given) == given = fields

\* a transaction that raised: rolled back in full, the error goes to the caller
Rollback(db, err) == [ok |-> FALSE, db |-> db, err |-> err]

\* a transaction that returned
Return(db, ret) == [ok |-> TRUE, db |-> db, err |-> "", ret |-> ret]

\* (mutant) the OUT rule ignoring what is reserved
out_allowed_ignoring_reserved(s, quantity) == ~(quantity > s.on_hand)

\* register_movement's OUT rule: quantity > available raises
out_allowed(s, quantity) == ~(quantity > s.on_hand - s.reserved)

\* StockService.register_movement
register_movement(db, k, type, qty) ==
    IF ~validate_common(qty) THEN Rollback(db, "ValidationError")
    ELSE
      LET d1 == get_snapshot_for_update(db, k)
          s == d1.snap[k]
          new_value == IF type = IN_ THEN s.on_hand + qty ELSE s.on_hand - qty
          d2 == [d1 EXCEPT !.mov = Append(@, NewMovement(k, type, qty, FALSE, 0)),
                           !.snap[k].on_hand = new_value]
      IN IF type = OUT /\ ~out_allowed(s, qty) THEN Rollback(db, "ValidationError")
         ELSE IF type \notin {IN_, OUT} THEN Rollback(db, "ValidationError")
         ELSE IF ~dataclass_init(StockResultFields,
                    {"item_id", "location_id", "new_on_hand", "movement_id"})
              THEN Rollback(db, "TypeError")
         ELSE Return(d2, [new_on_hand |-> new_value, movement_id |-> Len(d2.mov)])

\* (mutant) the snapshots locked source first, destination second
transfer_lock_order_as_given(from, to) == <<from, to>>

\* transfer's lock order: sorted([from_location, to_location], key=id)
transfer_lock_order(from, to) == IF from <= to THEN <<from, to>> ELSE <<to, from>>

\* (mutant) the source rule ignoring what is reserved at the source
transfer_allowed_ignoring_reserved(snap_from, quantity) == ~(quantity > snap_from.on_hand)

\* transfer's source rule: quantity > available_from raises
transfer_allowed(snap_from, quantity) == ~(quantity > snap_from.on_hand - snap_from.reserved)

\* (mutant) the destination is not credited
transfer_new_to_not_credited(snap_to, quantity) == snap_to.on_hand

\* new_to = snap_to.on_hand + quantity
transfer_new_to(snap_to, quantity) == snap_to.on_hand + quantity

\* StockService.transfer
transfer(db, item, from, to, qty) ==
    IF from = to THEN Rollback(db, "ValidationError")
    ELSE IF ~validate_common(qty) THEN Rollback(db, "ValidationError")
    ELSE
      LET ord == transfer_lock_order(from, to)
          d1 == get_snapshot_for_update(db, <<item, ord[1]>>)
          d2 == get_snapshot_for_update(d1, <<item, ord[2]>>)
          snap_from == d2.snap[<<item, from>>]
          snap_to == d2.snap[<<item, to>>]
          new_from == snap_from.on_hand - qty
          new_to == transfer_new_to(snap_to, qty)
          d3 == [d2 EXCEPT !.mov = @ \o <<NewMovement(<<item, from>>, OUT, qty, FALSE, 0),
                                          NewMovement(<<item, to>>, IN_, qty, FALSE, 0)>>,
                           !.snap[<<item, from>>].on_hand = new_from,
                           !.snap[<<item, to>>].on_hand = new_to]
      IN IF ~transfer_allowed(snap_from, qty) THEN Rollback(db, "ValidationError")
         ELSE IF ~dataclass_init(TransferResultFields,
                    {"item_id", "from_location_id", "to_location_id", "qty",
                     "from_new_on_hand", "to_new_on_hand", "out_movement_id",
                     "in_movement_id"})
              THEN Rollback(db, "TypeError")
         ELSE Return(d3, [from_new_on_hand |-> new_from, to_new_on_hand |-> new_to,
                          out_movement_id |-> Len(d3.mov) - 1,
                          in_movement_id |-> Len(d3.mov)])

abs(n) == IF n < 0 THEN 0 - n ELSE n

\* the fields adjust_delta and adjust_set pass to StockResult(...)
adjust_result_given == {"item_id", "location_id", "new_on_hand"}

\* StockService.adjust_delta
adjust_delta(db, k, delta, reason) ==
    IF delta = 0 THEN Rollback(db, "ValidationError")
    ELSE IF strip(reason) = "" THEN Rollback(db, "ValidationError")
    ELSE
      LET d1 == get_snapshot_for_update(db, k)
          s == d1.snap[k]
          new_on_hand == s.on_hand + delta
          d2 == [d1 EXCEPT !.mov = Append(@, NewMovement(k, ADJ, abs(delta), FALSE, 0)),
                           !.snap[k].on_hand = new_on_hand]
      IN IF new_on_hand < s.reserved THEN Rollback(db, "ValidationError")
         ELSE IF new_on_hand < 0 THEN Rollback(db, "ValidationError")
         ELSE IF ~dataclass_init(StockResultFields, adjust_result_given)
              THEN Rollback(db, "TypeError")
         ELSE Return(d2, [new_on_hand |-> new_on_hand])

\* StockService.adjust_set
adjust_set(db, k, new_on_hand, reason) ==
    IF new_on_hand < 0 THEN Rollback(db, "ValidationError")
    ELSE IF strip(reason) = "" THEN Rollback(db, "ValidationError")
    ELSE
      LET d1 == get_snapshot_for_update(db, k)
          s == d1.snap[k]
          d2 == [d1 EXCEPT !.mov = Append(@, NewMovement(k, ADJ, abs(new_on_hand - s.on_hand),
                                                         FALSE, 0)),
                           !.snap[k].on_hand = new_on_hand]
      IN IF new_on_hand < s.reserved THEN Rollback(db, "ValidationError")
         ELSE IF ~dataclass_init(StockResultFields, adjust_result_given)
              THEN Rollback(db, "TypeError")
         ELSE Return(d2, [new_on_hand |-> new_on_hand])

\* (mutant) the reserve rule checked against on_hand instead of available
reserve_allowed_against_on_hand(s, quantity) == ~(quantity > s.on_hand)

\* (mutant) reserving exactly the available amount is refused
reserve_allowed_strictly_below(s, quantity) == quantity < s.on_hand - s.reserved

\* reserve's rule: quantity > available raises
reserve_allowed(s, quantity) == ~(quantity > s.on_hand - s.reserved)

\* StockService.reserve
reserve(db, k, qty) ==
    IF ~(qty > 0) THEN Rollback(db, "ValidationError")
    ELSE
      LET d1 == get_snapshot_for_update(db, k)
          s == d1.snap[k]
          d2 == [d1 EXCEPT !.snap[k].reserved = s.reserved + qty]
      IN IF ~reserve_allowed(s, qty) THEN Rollback(db, "ValidationError")
         ELSE IF ~dataclass_init(ReserveResultFields,
                    {"item_id", "location_id", "new_reserved", "new_available"})
              THEN Rollback(db, "TypeError")
         ELSE Return(d2, [new_reserved |-> d2.snap[k].reserved,
                          new_available |-> available(d2.snap[k])])

\* (mutant) any quantity may be released
release_allowed_always(s, quantity) == TRUE

\* release's rule: quantity > reserved raises
release_allowed(s, quantity) == ~(quantity > s.reserved)

\* StockService.release
release(db, k, qty) ==
    IF ~(qty > 0) THEN Rollback(db, "ValidationError")
    ELSE
      LET d1 == get_snapshot_for_update(db, k)
          s == d1.snap[k]
          d2 == [d1 EXCEPT !.snap[k].reserved = s.reserved - qty]
      IN IF ~release_allowed(s, qty) THEN Rollback(db, "ValidationError")
         ELSE IF ~dataclass_init(ReserveResultFields,
                    {"item_id", "location_id", "new_reserved", "new_available"})
              THEN Rollback(db, "TypeError")
         ELSE Return(d2, [new_reserved |-> d2.snap[k].reserved,
                          new_available |-> available(d2.snap[k])])

\* hasattr(movement, "voided_by_movement"): some movement is its reversal
has_reversal(mov, id) == \E i \in 1..Len(mov) : mov[i].void_of = id

\* a void_of that is a plain foreign key: any number of reversals per original
void_of_many(mov, id) == TRUE

\* InventoryMovement.void_of is one-to-one: the store refuses a second reversal
void_of_unique(mov, id) == ~has_reversal(mov, id)

\* (mutant) the rule for voiding an IN ignoring what is reserved
void_in_allowed_ignoring_reserved(s, quantity) == ~(quantity > s.on_hand)

\* void of an IN: movement.quantity > available raises
void_in_allowed(s, quantity) == ~(quantity > s.on_hand - s.reserved)

\* (mutant) no movement type is refused
void_refuses_no_type(type) == FALSE

\* the types void_movement refuses: ADJ, and anything that is not IN or OUT
void_refuses_type(type) == type \notin {IN_, OUT}

\* (mutant) the reversal is logged and the snapshot left as it was
void_new_value_unchanged(type, on_hand, quantity) == on_hand

\* (mutant) the void applies the original's own effect a second time
void_new_value_repeating(type, on_hand, quantity) ==
    IF type = IN_ THEN on_hand + quantity ELSE on_hand - quantity

\* snapshot.on_hand after the reversal: an IN is taken back out, an OUT put back
void_new_value(type, on_hand, quantity) ==
    IF type = IN_ THEN on_hand - quantity ELSE on_hand + quantity

\* (mutant) the original is left unflagged
mark_void_forgotten(m) == m

\* the original row after movement.save(update_fields=["is_void", ...])
mark_void(m) == [m EXCEPT !.is_void = TRUE]

\* StockService.void_movement on the movement object the caller loaded:
\* movement is the row as the caller read it, reversed what
\* hasattr(movement, "voided_by_movement") answers before any row is locked
void_movement_from(db, id, reason, movement, reversed) ==
      LET k == <<movement.item, movement.location>>
          d1 == get_snapshot_for_update(db, k)
          s == d1.snap[k]
          inverse_type == IF movement.movement_type = IN_ THEN OUT ELSE IN_
          new_value == void_new_value(movement.movement_type, s.on_hand,
                                      movement.quantity)
          d2 == [d1 EXCEPT !.mov = Append([@ EXCEPT ![id] = mark_void(@)],
                                          NewMovement(k, inverse_type, movement.quantity,
                                                      TRUE, id)),
                           !.snap[k].on_hand = new_value]
      IN IF movement.is_void THEN Rollback(db, "ValidationError")
         ELSE IF reversed THEN Rollback(db, "ValidationError")
         ELSE IF strip(reason) = "" THEN Rollback(db, "ValidationError")
         ELSE IF movement.movement_type = IN_ /\ ~void_in_allowed(s, movement.quantity)
              THEN Rollback(db, "ValidationError")
         ELSE IF void_refuses_type(movement.movement_type)
              THEN Rollback(db, "ValidationError")
         ELSE IF ~void_of_unique(db.mov, id) THEN Rollback(db, "IntegrityError")
         ELSE IF ~dataclass_init(VoidResultFields,
                    {"original_id", "void_id", "item_id", "location_id", "new_on_hand"})
              THEN Rollback(db, "TypeError")
         ELSE Return(d2, [void_id |-> Len(d2.mov), original_id |-> id,
                          new_on_hand |-> new_value])

\* void_movement served alone: the movement is loaded and voided with nothing
\* in between; movement 0 stands for None
void_movement(db, id, reason) ==
    IF id = 0 THEN Rollback(db, "ValidationError")
    ELSE void_movement_from(db, id, reason, db.mov[id], has_reversal(db.mov, id))

\* ------------------------------------------- work order stock service
\* Reservation.objects.create
\* (mutant) the row is created already RELEASED
NewReservation_released(wo, item, location, qty) ==
    [work_order |-> wo, line |-> <<wo, item>>, item |-> item, location |-> location,
     quantity |-> qty, status |-> RELEASED, released |-> FALSE]

NewReservation(wo, item, location, qty) ==
    [work_order |-> wo, line |-> <<wo, item>>, item |-> item, location |-> location,
     quantity |-> qty, status |-> ACTIVE, released |-> FALSE]

\* WorkOrderStockService.reserve; location 0 stands for None
wo_reserve(db, line, qty, location) ==
    IF qty <= 0 THEN Rollback(db, "ValidationError")
    ELSE IF ~db.lines[line].exists THEN Rollback(db, "DoesNotExist")
    ELSE
      LET wo == line[1]
          k == <<line[2], location>>
      IN IF db.wo[wo].status \notin {DRAFT, APPROVED, IN_PROGRESS}
           THEN Rollback(db, "ValidationError")
         ELSE IF location = 0 THEN Rollback(db, "ValidationError")
         ELSE IF ~db.snap[k].exists THEN Rollback(db, "DoesNotExist")
         ELSE IF available(db.snap[k]) < qty THEN Rollback(db, "ValidationError")
         ELSE
           LET d1 == [db EXCEPT !.snap[k].reserved = @ + qty,
                                !.res = Append(@, NewReservation(wo, line[2], location, qty)),
                                !.lines[line].qty_reserved = @ + qty]
           IN Return(d1, [reservation_id |-> Len(d1.res)])

\* the qty argument None of release_reservation
None == 0 - 1

\* (mutant) the whole reservation is released whatever qty says
release_qty_always_all(qty, quantity) == quantity

\* release_qty = res.quantity if qty is None else qty
release_qty_or_all(qty, quantity) == IF qty = None THEN quantity ELSE qty

\* WorkOrderStockService.release_reservation
release_reservation(db, id, qty) ==
    IF id \notin 1..Len(db.res) THEN Rollback(db, "DoesNotExist")
    ELSE
      LET res == db.res[id]
          release_qty == release_qty_or_all(qty, res.quantity)
          k == <<res.item, res.location>>
          remaining == res.quantity - release_qty
          d1 == [db EXCEPT !.snap[k].reserved = @ - release_qty]
          d2 == IF remaining = 0
                THEN [d1 EXCEPT !.res[id].status = RELEASED, !.res[id].released = TRUE]
                ELSE [d1 EXCEPT !.res[id].quantity = remaining]
          d3 == [d2 EXCEPT !.lines[res.line].qty_reserved = @ - release_qty]
      IN IF res.status # ACTIVE THEN Rollback(db, "ValidationError")
         ELSE IF release_qty <= 0 THEN Rollback(db, "ValidationError")
         ELSE IF release_qty > res.quantity THEN Rollback(db, "ValidationError")
         ELSE IF ~db.snap[k].exists THEN Rollback(db, "DoesNotExist")
         ELSE IF db.snap[k].reserved < release_qty THEN Rollback(db, "ValidationError")
         ELSE IF d2.lines[res.line].qty_reserved < release_qty
              THEN Rollback(db, "ValidationError")
         ELSE Return(d3, [reservation_id |-> id])

\* (mutant) the issue line is linked to no movement
NewIssueLine_unlinked(issue, ln, reservation, movement) ==
    [issue |-> issue, item |-> ln.item, location |-> ln.location, quantity |-> ln.qty,
     reservation |-> reservation, movement_out |-> 0]

\* WorkOrderIssueLine.objects.create / WorkOrderReturnLine.objects.create
NewIssueLine(issue, ln, reservation, movement) ==
    [issue |-> issue, item |-> ln.item, location |-> ln.location, quantity |-> ln.qty,
     reservation |-> reservation, movement_out |-> movement]

\* (mutant) the return line is linked to no movement
NewReturnLine_unlinked(ret, ln, movement) ==
    [work_order_return |-> ret, item |-> ln.item, location |-> ln.location,
     quantity |-> ln.qty, movement_in |-> 0]

NewReturnLine(ret, ln, movement) ==
    [work_order_return |-> ret, item |-> ln.item, location |-> ln.location,
     quantity |-> ln.qty, movement_in |-> movement]

\* consume, step 1 of one line: validate the reservation and draw from it
consume_reservation(db, ln) ==
    IF ln.reservation \notin 1..Len(db.res) THEN Rollback(db, "DoesNotExist")
    ELSE
      LET reservation == db.res[ln.reservation]
          k == <<ln.item, ln.location>>
          left == reservation.quantity - ln.qty
          d1 == [db EXCEPT !.snap[k].reserved = @ - ln.qty]
          d2 == [d1 EXCEPT !.res[ln.reservation].quantity = left,
                           !.res[ln.reservation].status =
                               IF left = 0 THEN CONSUMED ELSE @]
          d3 == [d2 EXCEPT !.lines[reservation.line].qty_reserved = @ - ln.qty]
      IN IF reservation.status # ACTIVE THEN Rollback(db, "ValidationError")
         ELSE IF reservation.item # ln.item THEN Rollback(db, "ValidationError")
         ELSE IF reservation.location # ln.location THEN Rollback(db, "ValidationError")
         ELSE IF reservation.quantity < ln.qty THEN Rollback(db, "ValidationError")
         ELSE IF ~db.snap[k].exists THEN Rollback(db, "DoesNotExist")
         ELSE IF db.snap[k].reserved < ln.qty THEN Rollback(db, "ValidationError")
         ELSE IF d2.lines[reservation.line].qty_reserved < ln.qty
              THEN Rollback(db, "ValidationError")
         ELSE Return(d3, [reservation_id |-> ln.reservation])

\* consume, the body of the loop for one line
consume_line(db, wo, issue, ln) ==
    IF ln.qty <= 0 THEN Rollback(db, "ValidationError")
    ELSE
      LET r1 == IF ln.reservation # 0 THEN consume_reservation(db, ln)
                ELSE Return(db, [reservation_id |-> 0])
      IN IF ~r1.ok THEN r1
         ELSE
           LET r2 == register_movement(r1.db, <<ln.item, ln.location>>, OUT, ln.qty)
           IN IF ~r2.ok THEN r2
              ELSE IF ~r2.db.lines[<<wo, ln.item>>].exists THEN Rollback(db, "DoesNotExist")
              ELSE Return([r2.db EXCEPT
                             !.issue_lines = Append(@, NewIssueLine(issue, ln, ln.reservation,
                                                                   r2.ret.movement_id)),
                             !.lines[<<wo, ln.item>>].qty_consumed = @ + ln.qty],
                          [movement_id |-> r2.ret.movement_id])

\* (mutant) the batch runs outside a transaction: what was written stays
atomic_missing(db, r) == r

\* @transaction.atomic: an exception leaving the block undoes all it wrote
atomic(db, r) == IF r.ok THEN r ELSE Rollback(db, r.err)

RECURSIVE consume_lines(_, _, _, _)
\* consume, the loop over the lines: the first line that raises ends it
consume_lines(db, wo, issue, lines) ==
    IF lines = <<>> THEN Return(db, [issue_id |-> issue])
    ELSE LET r == consume_line(db, wo, issue, Head(lines))
         IN IF ~r.ok THEN r ELSE consume_lines(r.db, wo, issue, Tail(lines))

\* (mutant) the clock yields null
now_null(db) == 0

\* timezone.now() as a logical clock: it advances with every row written
now(db) == Len(db.mov) + Len(db.res) + 1

\* wo.started_at = wo.started_at or timezone.now(); 0 stands for null
started_at_or(started_at, t) == IF started_at # 0 THEN started_at ELSE t

\* WorkOrderStockService.consume
consume(db, wo, lines) ==
    IF lines = <<>> THEN Rollback(db, "ValidationError")
    ELSE IF db.wo[wo].status \notin {APPROVED, IN_PROGRESS} THEN Rollback(db, "ValidationError")
    ELSE
      LET d1 == [db EXCEPT !.issues = Append(@, wo)]
          r == atomic(db, consume_lines(d1, wo, Len(d1.issues), lines))
      IN IF ~r.ok THEN r
         ELSE IF db.wo[wo].status = APPROVED
              THEN Return([r.db EXCEPT !.wo[wo].status = IN_PROGRESS,
                                       !.wo[wo].started_at = started_at_or(@, now(r.db))],
                          r.ret)
         ELSE r

\* return_to_stock, the body of the loop for one line
return_line(db, wo, ret, ln) ==
    IF ln.qty <= 0 THEN Rollback(db, "ValidationError")
    ELSE
      LET r == register_movement(db, <<ln.item, ln.location>>, IN_, ln.qty)
      IN IF ~r.ok THEN r
         ELSE IF ~r.db.lines[<<wo, ln.item>>].exists THEN Rollback(db, "DoesNotExist")
         ELSE Return([r.db EXCEPT
                        !.return_lines = Append(@, NewReturnLine(ret, ln, r.ret.movement_id)),
                        !.lines[<<wo, ln.item>>].qty_returned = @ + ln.qty],
                     [movement_id |-> r.ret.movement_id])

RECURSIVE return_lines_loop(_, _, _, _)
\* return_to_stock, the loop over the lines
return_lines_loop(db, wo, ret, lines) ==
    IF lines = <<>> THEN Return(db, [return_id |-> ret])
    ELSE LET r == return_line(db, wo, ret, Head(lines))
         IN IF ~r.ok THEN r ELSE return_lines_loop(r.db, wo, ret, Tail(lines))

\* WorkOrderStockService.return_to_stock
return_to_stock(db, wo, lines) ==
    IF lines = <<>> THEN Rollback(db, "ValidationError")
    ELSE IF db.wo[wo].status \notin {IN_PROGRESS, COMPLETED} THEN Rollback(db, "ValidationError")
    ELSE
      LET d1 == [db EXCEPT !.returns = Append(@, wo)]
      IN atomic(db, return_lines_loop(d1, wo, Len(d1.returns), lines))

RECURSIVE aggregate_sum(_, _)
\* .aggregate(s=Sum("quantity"))["s"] or Decimal("0.000") over the rows at I
aggregate_sum(rows, I) ==
    IF I = {} THEN 0
    ELSE LET i == CHOOSE j \in I : TRUE
         IN rows[i].quantity + aggregate_sum(rows, I \ {i})

\* (mutant) the reservations of the line are summed whatever their status
reserved_any_status(db, line) ==
    aggregate_sum(db.res, {i \in 1..Len(db.res) : db.res[i].line = line})

\* line.reservations.filter(status=ACTIVE).aggregate(Sum("quantity"))
reserved_active(db, line) ==
    aggregate_sum(db.res, {i \in 1..Len(db.res) :
                             db.res[i].line = line /\ db.res[i].status = ACTIVE})

\* WorkOrderStockService.recompute_line_caches
recompute_line_caches(db, wo) ==
    Return([db EXCEPT !.lines = [l \in DOMAIN db.lines |->
              IF l[1] = wo /\ db.lines[l].exists
              THEN [db.lines[l] EXCEPT
                      !.qty_reserved = reserved_active(db, l),
                      !.qty_consumed = aggregate_sum(db.issue_lines,
                          {i \in 1..Len(db.issue_lines) :
                             /\ db.issues[db.issue_lines[i].issue] = wo
                             /\ db.issue_lines[i].item = l[2]}),
                      !.qty_returned = aggregate_sum(db.return_lines,
                          {i \in 1..Len(db.return_lines) :
                             /\ db.returns[db.return_lines[i].work_order_return] = wo
                             /\ db.return_lines[i].item = l[2]})]
              ELSE db.lines[l]]],
           [work_order |-> wo])

\* ------------------------------------------------ work order workflow
\* (mutant) the count of issue lines is never zero
total_consumed_one(db, wo) == 1

\* WorkOrderIssueLine.objects.filter(issue__work_order_id=wo.id).count()
total_consumed(db, wo) ==
    Cardinality({i \in 1..Len(db.issue_lines) : db.issues[db.issue_lines[i].issue] = wo})

\* wo.lines.exists()
has_lines(db, wo) == \E item \in Items : db.lines[<<wo, item>>].exists

\* transitions that check the status and set the next one
transition(db, wo, from, to) ==
    IF db.wo[wo].status # from THEN Rollback(db, "ValidationError")
    ELSE IF to \notin Status THEN Rollback(db, "AttributeError")
    ELSE Return([db EXCEPT !.wo[wo].status = to], [status |-> to])

\* WorkOrderWorkflowService.approve
approve(db, wo) ==
    IF db.wo[wo].status # DRAFT THEN Rollback(db, "ValidationError")
    ELSE IF ~has_lines(db, wo) THEN Rollback(db, "ValidationError")
    ELSE transition(db, wo, DRAFT, APPROVED)

\* (mutant) pause does not look at the current status
pause_from_any(db, wo) ==
    Return([db EXCEPT !.wo[wo].status = PAUSED], [status |-> PAUSED])

\* WorkOrderWorkflowService.pause
pause(db, wo) == transition(db, wo, IN_PROGRESS, PAUSED)

\* (mutant) resume does not look at the current status
resume_from_any(db, wo) ==
    Return([db EXCEPT !.wo[wo].status = IN_PROGRESS], [status |-> IN_PROGRESS])

\* WorkOrderWorkflowService.resume
resume(db, wo) == transition(db, wo, PAUSED, IN_PROGRESS)

\* WorkOrderWorkflowService.complete
complete(db, wo) ==
    IF db.wo[wo].status # IN_PROGRESS THEN Rollback(db, "ValidationError")
    ELSE IF total_consumed(db, wo) = 0 THEN Rollback(db, "ValidationError")
    ELSE transition(db, wo, IN_PROGRESS, COMPLETED)

\* WorkOrderWorkflowService.close: WorkOrder.Status defines no CLOSED member
close(db, wo) == transition(db, wo, COMPLETED, "CLOSED")

\* (mutant) cancel finds no reservation to release
active_res_none(db, wo) == {}

\* the ids of the work order's ACTIVE reservations, ascending
active_res(db, wo) ==
    {i \in 1..Len(db.res) : db.res[i].work_order = wo /\ db.res[i].status = ACTIVE}

\* (mutant) only the first active reservation is released
release_first_only(db, ids) ==
    IF ids = {} THEN Return(db, [released |-> TRUE])
    ELSE release_reservation(db, CHOOSE i \in ids : \A j \in ids : i <= j, None)

RECURSIVE release_all(_, _)
\* cancel's loop: release_reservation(qty=None) for each active reservation
release_all(db, ids) ==
    IF ids = {} THEN Return(db, [released |-> TRUE])
    ELSE LET id == CHOOSE i \in ids : \A j \in ids : i <= j
             r == release_reservation(db, id, None)
         IN IF ~r.ok THEN r ELSE release_all(r.db, ids \ {id})

\* (mutant) cancel checks neither the status nor the consumptions
cancel_unchecked(db, wo) ==
    IF db.wo[wo].status = CANCELLED THEN Return(db, [status |-> CANCELLED])
    ELSE LET r == release_all(db, active_res(db, wo))
         IN IF ~r.ok THEN Rollback(db, r.err)
            ELSE Return([r.db EXCEPT !.wo[wo].status = CANCELLED],
                        [status |-> CANCELLED])

\* WorkOrderWorkflowService.cancel
cancel(db, wo) ==
    IF db.wo[wo].status = CANCELLED THEN Return(db, [status |-> CANCELLED])
    ELSE IF db.wo[wo].status \notin {DRAFT, APPROVED} THEN Rollback(db, "ValidationError")
    ELSE IF total_consumed(db, wo) > 0 THEN Rollback(db, "ValidationError")
    ELSE
      LET r == release_all(db, active_res(db, wo))
      IN IF ~r.ok THEN Rollback(db, r.err)
         ELSE Return([r.db EXCEPT !.wo[wo].status = CANCELLED], [status |-> CANCELLED])

\* ------------------------------------------------------------- requests
\* Each request is one transaction: it commits what the service returned, or
\* nothing when the service raised.
Commit(db) ==
    /\ snapshots' = db.snap
    /\ movements' = db.mov
    /\ workorders' = db.wo
    /\ wo_lines' = db.lines
    /\ reservations' = db.res
    /\ issues' = db.issues
    /\ issue_lines' = db.issue_lines
    /\ returns' = db.returns
    /\ return_lines' = db.return_lines

\* what the caller gets back
Outcome(r) == IF r.ok THEN [ok |-> TRUE, err |-> "", ret |-> r.ret]
              ELSE [ok |-> FALSE, err |-> r.err]

\* a request of a watched operation is recorded with its outcome and the store
\* it found
Unwatched == [op |-> "other"]
Record(request) ==
    /\ last' = IF request.op \in watch THEN request @@ [before |-> DB] ELSE Unwatched
    /\ UNCHANGED <<watch, txn, base, notifier, report>>

\* the store as the last recorded request found it
before == last.before

\* the explored movement log and reservation table are bounded
Bounded(r) == Len(r.db.mov) <= MaxMov /\ Len(r.db.res) <= MaxRes

RegisterMovement(k, type, qty) ==
    LET r == register_movement(DB, k, type, qty)
    IN /\ Bounded(r)
       /\ Commit(r.db)
       /\ Record([op |-> "register_movement", key |-> k, type |-> type, qty |-> qty,
                  res |-> Outcome(r)])

Transfer(item, from, to, qty) ==
    LET r == transfer(DB, item, from, to, qty)
    IN /\ Bounded(r)
       /\ Commit(r.db)
       /\ Record([op |-> "transfer", item |-> item, from |-> from, to |-> to,
                  qty |-> qty, res |-> Outcome(r)])

AdjustDelta(k, delta, reason) ==
    LET r == adjust_delta(DB, k, delta, reason)
    IN /\ Bounded(r)
       /\ Commit(r.db)
       /\ Record([op |-> "adjust_delta", key |-> k, delta |-> delta, reason |-> reason,
                  res |-> Outcome(r)])

AdjustSet(k, new_on_hand, reason) ==
    LET r == adjust_set(DB, k, new_on_hand, reason)
    IN /\ Bounded(r)
       /\ Commit(r.db)
       /\ Record([op |-> "adjust_set", key |-> k, new_on_hand |-> new_on_hand,
                  reason |-> reason, res |-> Outcome(r)])

Reserve(k, qty) ==
    LET r == reserve(DB, k, qty)
    IN /\ Commit(r.db)
       /\ Record([op |-> "reserve", key |-> k, qty |-> qty, res |-> Outcome(r)])

Release(k, qty) ==
    LET r == release(DB, k, qty)
    IN /\ Commit(r.db)
       /\ Record([op |-> "release", key |-> k, qty |-> qty, res |-> Outcome(r)])

VoidMovement(id, reason) ==
    LET r == void_movement(DB, id, reason)
    IN /\ Bounded(r)
       /\ Commit(r.db)
       /\ Record([op |-> "void_movement", id |-> id, reason |-> reason,
                  res |-> Outcome(r)])

WoReserveWithin(max, line, qty, location) ==
    LET r == wo_reserve(DB, line, qty, location)
    IN /\ Len(r.db.mov) <= MaxMov /\ Len(r.db.res) <= max
       /\ Commit(r.db)
       /\ Record([op |-> "wo_reserve", line |-> line, qty |-> qty, location |-> location,
                  res |-> Outcome(r)])

WoReserve(line, qty, location) == WoReserveWithin(MaxRes, line, qty, location)

ReleaseReservation(id, qty) ==
    LET r == release_reservation(DB, id, qty)
    IN /\ Commit(r.db)
       /\ Record([op |-> "release_reservation", id |-> id, qty |-> qty,
                  res |-> Outcome(r)])

Consume(wo, lines) ==
    LET r == consume(DB, wo, lines)
    IN /\ Bounded(r)
       /\ Commit(r.db)
       /\ Record([op |-> "consume", wo |-> wo, lines |-> lines, res |-> Outcome(r)])

ReturnToStockWithin(max, wo, lines) ==
    LET r == return_to_stock(DB, wo, lines)
    IN /\ Len(r.db.mov) <= max /\ Len(r.db.res) <= MaxRes
       /\ Commit(r.db)
       /\ Record([op |-> "return_to_stock", wo |-> wo, lines |-> lines,
                  res |-> Outcome(r)])

ReturnToStock(wo, lines) == ReturnToStockWithin(MaxMov, wo, lines)

Approve(wo) ==
    LET r == approve(DB, wo)
    IN Commit(r.db) /\ Record([op |-> "approve", wo |-> wo, res |-> Outcome(r)])

Pause(wo) ==
    LET r == pause(DB, wo)
    IN Commit(r.db) /\ Record([op |-> "pause", wo |-> wo, res |-> Outcome(r)])

Resume(wo) ==
    LET r == resume(DB, wo)
    IN Commit(r.db) /\ Record([op |-> "resume", wo |-> wo, res |-> Outcome(r)])

Complete(wo) ==
    LET r == complete(DB, wo)
    IN Commit(r.db) /\ Record([op |-> "complete", wo |-> wo, res |-> Outcome(r)])

Close(wo) ==
    LET r == close(DB, wo)
    IN Commit(r.db) /\ Record([op |-> "close", wo |-> wo, res |-> Outcome(r)])

Cancel(wo) ==
    LET r == cancel(DB, wo)
    IN Commit(r.db) /\ Record([op |-> "cancel", wo |-> wo, res |-> Outcome(r)])

RecomputeLineCaches(wo) ==
    LET r == recompute_line_caches(DB, wo)
    IN /\ Commit(r.db)
       /\ Record([op |-> "recompute_line_caches", wo |-> wo, res |-> Outcome(r)])

\* --------------------------------------------- concurrent transactions
\* Requests served at the same time: each is one transaction that takes its
\* row locks one select_for_update at a time, in the order its code reaches
\* them, and holds them until it commits or rolls back.
Txns == {1, 2}
Idle == [pc |-> "idle"]

SnapRow(k) == [table |-> "snapshot", id |-> k]
WoRow(wo) == [table |-> "workorder", id |-> <<wo, 0>>]
LineRow(line) == [table |-> "line", id |-> line]
ResRow(id) == [table |-> "reservation", id |-> <<id, 0>>]

\* the rows register_movement locks: none when validation raises first
register_movement_locks(k, qty) ==
    IF ~validate_common(qty) THEN <<>> ELSE <<SnapRow(k)>>

\* the rows StockService.reserve locks
reserve_locks(k, qty) == IF ~(qty > 0) THEN <<>> ELSE <<SnapRow(k)>>

\* the rows transfer locks: both snapshots, in transfer_lock_order
transfer_locks(item, from, to, qty) ==
    IF from = to \/ ~validate_common(qty) THEN <<>>
    ELSE LET ord == transfer_lock_order(from, to)
         IN <<SnapRow(<<item, ord[1]>>), SnapRow(<<item, ord[2]>>)>>

\* the rows WorkOrderStockService.reserve locks: the line, then the snapshot
wo_reserve_locks(db, line, qty, location) ==
    IF qty <= 0 \/ ~db.lines[line].exists THEN <<>>
    ELSE <<LineRow(line)>> \o
         (IF \/ db.wo[line[1]].status \notin {DRAFT, APPROVED, IN_PROGRESS}
             \/ location = 0
             \/ ~db.snap[<<line[2], location>>].exists
          THEN <<>>
          ELSE <<SnapRow(<<line[2], location>>)>>)

\* consume, step 1 of one line: the reservation, its snapshot, its line
consume_reservation_locks(db, ln) ==
    IF ln.reservation \notin 1..Len(db.res) THEN <<>>
    ELSE
      LET reservation == db.res[ln.reservation]
          k == <<ln.item, ln.location>>
      IN <<ResRow(ln.reservation)>> \o
         (IF \/ reservation.status # ACTIVE
             \/ reservation.item # ln.item
             \/ reservation.location # ln.location
             \/ reservation.quantity < ln.qty
             \/ ~db.snap[k].exists
          THEN <<>>
          ELSE <<SnapRow(k)>> \o
               (IF db.snap[k].reserved < ln.qty THEN <<>>
                ELSE <<LineRow(reservation.line)>>))

\* consume, one line: step 1, then register_movement's snapshot, then the
\* work order's own line
consume_line_locks(db, wo, ln) ==
    IF ln.qty <= 0 THEN <<>>
    ELSE
      LET k == <<ln.item, ln.location>>
          r1 == IF ln.reservation # 0 THEN consume_reservation(db, ln)
                ELSE Return(db, [reservation_id |-> 0])
          step1 == IF ln.reservation # 0 THEN consume_reservation_locks(db, ln) ELSE <<>>
      IN IF ~r1.ok THEN step1
         ELSE step1 \o register_movement_locks(k, ln.qty) \o
              (IF register_movement(r1.db, k, OUT, ln.qty).ok
                    /\ db.lines[<<wo, ln.item>>].exists
               THEN <<LineRow(<<wo, ln.item>>)>>
               ELSE <<>>)

RECURSIVE consume_lines_locks(_, _, _, _)
\* consume, the loop: the lines are locked one after the other, as listed
consume_lines_locks(db, wo, issue, lines) ==
    IF lines = <<>> THEN <<>>
    ELSE LET r == consume_line(db, wo, issue, Head(lines))
         IN consume_line_locks(db, wo, Head(lines)) \o
            (IF r.ok THEN consume_lines_locks(r.db, wo, issue, Tail(lines)) ELSE <<>>)

\* the rows consume locks: the work order, then what each line locks
consume_locks(db, wo, lines) ==
    IF lines = <<>> THEN <<>>
    ELSE <<WoRow(wo)>> \o
         (IF db.wo[wo].status \notin {APPROVED, IN_PROGRESS} THEN <<>>
          ELSE LET d1 == [db EXCEPT !.issues = Append(@, wo)]
               IN consume_lines_locks(d1, wo, Len(d1.issues), lines))

\* the rows release_reservation locks: the reservation, its snapshot, its line
release_reservation_locks(db, id, qty) ==
    IF id \notin 1..Len(db.res) THEN <<>>
    ELSE
      LET res == db.res[id]
          release_qty == release_qty_or_all(qty, res.quantity)
          k == <<res.item, res.location>>
      IN <<ResRow(id)>> \o
         (IF \/ res.status # ACTIVE
             \/ release_qty <= 0
             \/ release_qty > res.quantity
             \/ ~db.snap[k].exists
          THEN <<>>
          ELSE <<SnapRow(k)>> \o
               (IF db.snap[k].reserved < release_qty THEN <<>>
                ELSE <<LineRow(res.line)>>))

RECURSIVE release_all_locks(_, _)
\* cancel's loop: what each release_reservation locks, one after the other
release_all_locks(db, ids) ==
    IF ids = {} THEN <<>>
    ELSE LET id == CHOOSE i \in ids : \A j \in ids : i <= j
             r == release_reservation(db, id, None)
         IN release_reservation_locks(db, id, None) \o
            (IF r.ok THEN release_all_locks(r.db, ids \ {id}) ELSE <<>>)

RECURSIVE rows_ascending(_)
\* the rows of a select_for_update over several reservations, by id
rows_ascending(ids) ==
    IF ids = {} THEN <<>>
    ELSE LET id == CHOOSE i \in ids : \A j \in ids : i <= j
         IN <<ResRow(id)>> \o rows_ascending(ids \ {id})

\* the rows cancel locks: the work order, its ACTIVE reservations, then what
\* each release locks
cancel_locks(db, wo) ==
    <<WoRow(wo)>> \o
    (IF \/ db.wo[wo].status \notin {DRAFT, APPROVED}
        \/ total_consumed(db, wo) > 0
     THEN <<>>
     ELSE rows_ascending(active_res(db, wo)) \o release_all_locks(db, active_res(db, wo)))

\* the rows void_movement locks: the snapshot, once the checks on the caller's
\* movement object have passed
void_locks(req) ==
    IF req.movement.is_void \/ req.reversed \/ strip(req.reason) = "" THEN <<>>
    ELSE <<SnapRow(<<req.movement.item, req.movement.location>>)>>

\* the rows a request locks, in order, when it runs on the store db
locks_of(req, db) ==
    CASE req.op = "register_movement" -> register_movement_locks(req.key, req.qty)
      [] req.op = "reserve" -> reserve_locks(req.key, req.qty)
      [] req.op = "wo_reserve" -> wo_reserve_locks(db, req.line, req.qty, req.location)
      [] req.op = "transfer" -> transfer_locks(req.item, req.from, req.to, req.qty)
      [] req.op = "consume" -> consume_locks(db, req.wo, req.lines)
      [] req.op = "void_movement" -> void_locks(req)
      [] req.op = "release_reservation" -> release_reservation_locks(db, req.id, req.qty)
      [] req.op = "cancel" -> cancel_locks(db, req.wo)

\* what a request does when it runs on the store db
run(req, db) ==
    CASE req.op = "register_movement" -> register_movement(db, req.key, req.type, req.qty)
      [] req.op = "reserve" -> reserve(db, req.key, req.qty)
      [] req.op = "wo_reserve" -> wo_reserve(db, req.line, req.qty, req.location)
      [] req.op = "transfer" -> transfer(db, req.item, req.from, req.to, req.qty)
      [] req.op = "consume" -> consume(db, req.wo, req.lines)
      [] req.op = "void_movement" ->
            void_movement_from(db, req.id, req.reason, req.movement, req.reversed)
      [] req.op = "release_reservation" -> release_reservation(db, req.id, req.qty)
      [] req.op = "cancel" -> cancel(db, req.wo)

\* the movements a request appends when it succeeds
appends(req) ==
    CASE req.op = "register_movement" -> 1
      [] req.op = "transfer" -> 2
      [] req.op = "consume" -> Len(req.lines)
      [] req.op = "void_movement" -> 1
      [] OTHER -> 0

Running(t) == txn[t].pc = "run"
Quiet == \A t \in Txns : txn[t].pc = "idle"
Peer(t) == CHOOSE u \in Txns : u # t

\* the rows transaction t holds
held_rows(t) == IF Running(t) THEN {txn[t].held[i] : i \in 1..Len(txn[t].held)} ELSE {}

\* (mutant) a store without row locks: no select_for_update ever waits
row_free_without_locks(row, t) == TRUE

\* select_for_update returns once no other transaction holds the row
row_free(row, t) == \A u \in Txns \ {t} : row \notin held_rows(u)

\* the store as transaction t has it: the snapshot rows it has read under
\* its locks, the rest as committed
View(t) ==
    [DB EXCEPT !.snap = [k \in Keys |-> IF k \in txn[t].read THEN txn[t].seen[k]
                                       ELSE snapshots[k]]]

\* the rows t is to lock on the store as it has it
plan(t) == locks_of(txn[t].req, View(t))

\* t is at a select_for_update
at_lock(t) == Running(t) /\ Len(txn[t].held) < Len(plan(t))
next_row(t) == plan(t)[Len(txn[t].held) + 1]

\* a request arrives and its transaction opens
Begin(t, req) ==
    /\ txn[t].pc = "idle"
    /\ Len(movements) + appends(req)
          + (IF Running(Peer(t)) THEN appends(txn[Peer(t)].req) ELSE 0) <= MaxLog
    /\ txn' = [u \in Txns |->
                 IF u = t
                 THEN [pc |-> "run", req |-> req, held |-> <<>>, read |-> {},
                       seen |-> [k \in Keys |-> NoSnapshot],
                       overlapped |-> Running(Peer(t))]
                 ELSE IF Running(u) THEN [txn[u] EXCEPT !.overlapped = TRUE]
                 ELSE txn[u]]
    /\ base' = IF Quiet THEN DB ELSE base
    /\ UNCHANGED <<store, last, watch, notifier, report>>

\* one select_for_update: t waits for the row, locks it and reads it
Acquire(t) ==
    /\ at_lock(t)
    /\ row_free(next_row(t), t)
    /\ LET row == next_row(t)
           reads == row.table = "snapshot" /\ row.id \notin txn[t].read
       IN txn' = [txn EXCEPT ![t].held = Append(@, row),
                             ![t].read = IF reads THEN @ \cup {row.id} ELSE @,
                             ![t].seen = IF reads THEN [@ EXCEPT ![row.id] = snapshots[row.id]]
                                         ELSE @]
    /\ UNCHANGED <<store, last, watch, base, notifier, report>>

\* the rest of the handler, from what t has read: it writes and commits, or
\* raises and rolls back; either way its locks are released
Finish(t) ==
    /\ Running(t)
    /\ ~at_lock(t)
    /\ LET r == run(txn[t].req, View(t))
       IN /\ IF r.ok
             THEN Commit([r.db EXCEPT !.snap = [k \in Keys |->
                                      IF k \in txn[t].read THEN r.db.snap[k]
                                      ELSE snapshots[k]]])
             ELSE UNCHANGED store
          /\ txn' = [txn EXCEPT ![t] = [pc |-> "done", req |-> txn[t].req,
                                        overlapped |-> txn[t].overlapped,
                                        res |-> Outcome(r)]]
    /\ UNCHANGED <<last, watch, base, notifier, report>>

\* t waits for a row that u holds
Blocked(t, u) == at_lock(t) /\ next_row(t) \in held_rows(u)
CircularWait(t, u) == t # u /\ Blocked(t, u) /\ Blocked(u, t)

\* t has a step to take
CanStep(t) == Running(t) /\ (at_lock(t) => row_free(next_row(t), t))

\* ------------------------------------------------------- specifications
\* the store after construction: no stock, no movements, every work order a
\* DRAFT with one line per item
InitStore ==
    /\ snapshots = [k \in Keys |-> NoSnapshot]
    /\ movements = <<>>
    /\ workorders = [w \in WorkOrders |-> [status |-> DRAFT, started_at |-> 0]]
    /\ wo_lines = [l \in WorkOrders \X Items |->
                     [exists |-> TRUE, qty_reserved |-> 0, qty_consumed |-> 0,
                      qty_returned |-> 0]]
    /\ reservations = <<>>
    /\ issues = <<>>
    /\ issue_lines = <<>>
    /\ returns = <<>>
    /\ return_lines = <<>>

\* the lines a consume or return request may carry
ConsumeLineInputs ==
    [item : Items, location : Locations, qty : QtyInputs, reservation : 0..Len(reservations)]
ReturnLineInputs == [item : Items, location : Locations, qty : QtyInputs]
Batches(S) == {<<a>> : a \in S} \cup {<<a, b>> : a \in S, b \in S}

NextLedger ==
    \/ \E k \in Keys, type \in MovementType, qty \in QtyInputs :
          RegisterMovement(k, type, qty)
    \/ \E item \in Items, from \in Locations, to \in Locations, qty \in QtyInputs :
          Transfer(item, from, to, qty)
    \/ \E k \in Keys, delta \in DeltaInputs, reason \in Reasons :
          AdjustDelta(k, delta, reason)
    \/ \E k \in Keys, new_on_hand \in SetInputs, reason \in Reasons :
          AdjustSet(k, new_on_hand, reason)
    \/ \E k \in Keys, qty \in QtyInputs : Reserve(k, qty)
    \/ \E k \in Keys, qty \in QtyInputs : Release(k, qty)
    \/ \E id \in 0..Len(movements), reason \in Reasons : VoidMovement(id, reason)

NextWorkOrder ==
    \/ \E line \in WorkOrders \X Items, qty \in QtyInputs, location \in {0} \cup Locations :
          WoReserve(line, qty, location)
    \/ \E id \in 1..Len(reservations), qty \in {None} \cup QtyInputs :
          ReleaseReservation(id, qty)
    \/ \E wo \in WorkOrders, lines \in Batches(ConsumeLineInputs) : Consume(wo, lines)
    \/ \E wo \in WorkOrders, lines \in Batches(ReturnLineInputs) : ReturnToStock(wo, lines)
    \/ \E wo \in WorkOrders : Approve(wo)
    \/ \E wo \in WorkOrders : Cancel(wo)

\* the status transitions that move no stock
NextWorkflow ==
    \/ \E wo \in WorkOrders : Pause(wo)
    \/ \E wo \in WorkOrders : Resume(wo)
    \/ \E wo \in WorkOrders : Complete(wo)
    \/ \E wo \in WorkOrders : Close(wo)

InitWatching(ops) ==
    /\ InitStore
    /\ last = Unwatched
    /\ watch = ops
    /\ txn = [t \in Txns |-> Idle]
    /\ base = DB
    /\ InitNotifier
    /\ InitReport

\* every operation that moves or holds stock, in any order, none recorded
Init == InitWatching({})
Next == NextLedger \/ NextWorkOrder
Spec == Init /\ [][Next]_vars

\* the stock ledger alone: none recorded, or the requests of one operation
SpecLedger == Init /\ [][NextLedger]_vars
SpecRegister == InitWatching({"register_movement"}) /\ [][NextLedger]_vars
SpecTransfer == InitWatching({"transfer"}) /\ [][NextLedger]_vars
SpecAdjust == InitWatching({"adjust_delta", "adjust_set"}) /\ [][NextLedger]_vars
SpecVoid == InitWatching({"void_movement"}) /\ [][NextLedger]_vars

SpecReserve == InitWatching({"reserve", "release"}) /\ [][NextLedger]_vars

\* One work order served alone. It starts as a DRAFT with its line for the
\* item, or APPROVED on the strength of lines for other items, with no line
\* for the item the requests name.
InitOrders(ops) ==
    \E line_exists \in BOOLEAN :
        /\ snapshots = [k \in Keys |-> NoSnapshot]
        /\ movements = <<>>
        /\ workorders = [w \in WorkOrders |->
                          [status |-> IF line_exists THEN DRAFT ELSE APPROVED,
                           started_at |-> 0]]
        /\ wo_lines = [l \in WorkOrders \X Items |->
                         [exists |-> line_exists, qty_reserved |-> 0,
                          qty_consumed |-> 0, qty_returned |-> 0]]
        /\ reservations = <<>> /\ issues = <<>> /\ issue_lines = <<>>
        /\ returns = <<>> /\ return_lines = <<>>
        /\ last = Unwatched /\ watch = ops
        /\ txn = [t \in Txns |-> Idle]
        /\ base = DB
        /\ InitNotifier
        /\ InitReport

\* the lines of the batches: invalid or LineQty, with or without a reservation
OrderLineInputs ==
    [item : Items, location : Locations, qty : {0, LineQty}, reservation : 0..MaxRes]
OrderReturnInputs == [item : Items, location : Locations, qty : {0, LineQty}]

\* stock is received once, then reserved, consumed and returned by the work
\* order while its status moves
NextOrders ==
    \/ Len(movements) < MaxSetup
          /\ \E k \in Keys, qty \in 1..MaxQty : RegisterMovement(k, IN_, qty)
    \/ \E line \in WorkOrders \X Items, qty \in QtyInputs, location \in {0} \cup Locations :
          WoReserve(line, qty, location)
    \/ \E id \in 1..Len(reservations), qty \in {None} \cup QtyInputs :
          ReleaseReservation(id, qty)
    \/ \E wo \in WorkOrders, lines \in Batches(OrderLineInputs) : Consume(wo, lines)
    \/ \E wo \in WorkOrders, lines \in Batches(OrderReturnInputs) : ReturnToStock(wo, lines)
    \/ \E wo \in WorkOrders : Approve(wo)
    \/ \E wo \in WorkOrders : Cancel(wo)
    \/ NextWorkflow

SpecBatch == InitOrders({"consume", "return_to_stock"}) /\ [][NextOrders]_vars

\* stock is received once, reserved, consumed one line at a time and returned
\* in batches
NextReturn ==
    \/ Len(movements) < MaxSetup
          /\ \E k \in Keys, qty \in 1..MaxQty : RegisterMovement(k, IN_, qty)
    \/ \E line \in WorkOrders \X Items, qty \in QtyInputs, location \in {0} \cup Locations :
          WoReserve(line, qty, location)
    \/ \E wo \in WorkOrders, ln \in OrderLineInputs : Consume(wo, <<ln>>)
    \/ \E wo \in WorkOrders, lines \in Batches(OrderReturnInputs) :
          ReturnToStockWithin(MaxReturn, wo, lines)
    \/ \E wo \in WorkOrders : Approve(wo)
    \/ \E wo \in WorkOrders : Cancel(wo)
    \/ NextWorkflow

SpecReturn == InitOrders({"return_to_stock"}) /\ [][NextReturn]_vars

\* the work order's operations, with its line caches recomputed at any point
NextCaches == NextOrders \/ \E wo \in WorkOrders : RecomputeLineCaches(wo)
SpecCaches == InitOrders({"recompute_line_caches"}) /\ [][NextCaches]_vars
\* The work order is found in any status with nothing issued yet: the status
\* field can be edited whatever was consumed.
InitStatusInputs(ops) ==
    \E status \in Status :
        /\ snapshots = [k \in Keys |-> NoSnapshot]
        /\ movements = <<>>
        /\ workorders = [w \in WorkOrders |-> [status |-> status, started_at |-> 0]]
        /\ wo_lines = [l \in WorkOrders \X Items |->
                         [exists |-> TRUE, qty_reserved |-> 0, qty_consumed |-> 0,
                          qty_returned |-> 0]]
        /\ reservations = <<>> /\ issues = <<>> /\ issue_lines = <<>>
        /\ returns = <<>> /\ return_lines = <<>>
        /\ last = Unwatched /\ watch = ops
        /\ txn = [t \in Txns |-> Idle]
        /\ base = DB
        /\ InitNotifier
        /\ InitReport

SpecStatusInputs ==
    InitStatusInputs({"approve", "pause", "resume", "complete", "close", "cancel"})
      /\ [][NextOrders]_vars
\* stock is received at up to MaxHeld places and reserved up to MaxHeld times
\* before the work order is approved, drawn from or cancelled
NextCancel ==
    \/ Len(movements) < MaxHeld
          /\ \E k \in Keys, qty \in 1..MaxQty : RegisterMovement(k, IN_, qty)
    \/ \E line \in WorkOrders \X Items, qty \in 1..MaxQty, location \in Locations :
          WoReserveWithin(MaxHeld, line, qty, location)
    \/ \E wo \in WorkOrders, ln \in OrderLineInputs : Consume(wo, <<ln>>)
    \/ \E wo \in WorkOrders : Approve(wo)
    \/ \E wo \in WorkOrders : Cancel(wo)

SpecCancel == InitOrders({"cancel"}) /\ [][NextCancel]_vars
SpecFlow ==
    InitOrders({"approve", "pause", "resume", "complete", "close", "cancel",
                "consume"}) /\ [][NextOrders]_vars
SpecHold == InitOrders({"wo_reserve", "release_reservation"}) /\ [][NextOrders]_vars

\* two requests served at the same time, after any requests served alone
NextTxn(Requests) ==
    \/ \E t \in Txns, req \in Requests : Begin(t, req)
    \/ \E t \in Txns : Acquire(t)
    \/ \E t \in Txns : Finish(t)

\* ledger mutations of one snapshot row each
LedgerRequests ==
    [op : {"register_movement"}, key : Keys, type : {IN_, OUT}, qty : 1..MaxQty]
      \cup [op : {"reserve"}, key : Keys, qty : 1..MaxQty]
      \cup [op : {"wo_reserve"}, line : WorkOrders \X Items, qty : 1..MaxQty,
            location : Locations]

\* the requests served alone beforehand leave at most MaxSetup movements
SetupOpen == Quiet /\ Len(movements) < MaxSetup

NextConc ==
    \/ SetupOpen /\ \E k \in Keys, qty \in 1..MaxQty : RegisterMovement(k, IN_, qty)
    \/ Quiet /\ \E k \in Keys, qty \in 1..MaxQty : Reserve(k, qty)
    \/ NextTxn(LedgerRequests)

SpecConc == Init /\ [][NextConc]_vars

\* requests that lock more than one snapshot row
TransferRequests ==
    {r \in [op : {"transfer"}, item : Items, from : Locations, to : Locations,
            qty : 1..MaxQty] : r.from # r.to}
\* batches of two lines of LineQty each, at two different locations
LineInputs ==
    [item : Items, location : Locations, qty : {LineQty}, reservation : 0..MaxRes]
TwoLocationBatches ==
    {lines \in LineInputs \X LineInputs : lines[1].location # lines[2].location}
ConsumeRequests == [op : {"consume"}, wo : WorkOrders, lines : TwoLocationBatches]
LockRequests == TransferRequests \cup ConsumeRequests

NextLock ==
    \/ SetupOpen /\ \E k \in Keys, qty \in 1..MaxQty : RegisterMovement(k, IN_, qty)
    \/ Quiet /\ \E line \in WorkOrders \X Items, qty \in 1..MaxQty,
                    location \in Locations : WoReserve(line, qty, location)
    \/ Quiet /\ \E wo \in WorkOrders : Approve(wo)
    \/ NextTxn(LockRequests)

SpecLock == Init /\ [][NextLock]_vars

\* void_movement on any movement it can be handed: the log starts with one
\* live movement of any MovementType, its snapshot holding that quantity
\* (nothing for an OUT)
MovementInputs ==
    [item : Items, location : Locations, movement_type : MovementType,
     quantity : 1..MaxQty, is_void : {FALSE}, void_of : {0}]

InitVoidInputs ==
    \E m \in MovementInputs :
        /\ movements = <<m>>
        /\ snapshots = [k \in Keys |->
              IF k = <<m.item, m.location>>
              THEN [exists |-> TRUE,
                    on_hand |-> IF m.movement_type = OUT THEN 0 ELSE m.quantity,
                    reserved |-> 0]
              ELSE NoSnapshot]
        /\ workorders = [w \in WorkOrders |-> [status |-> DRAFT, started_at |-> 0]]
        /\ wo_lines = [l \in WorkOrders \X Items |->
                         [exists |-> TRUE, qty_reserved |-> 0, qty_consumed |-> 0,
                          qty_returned |-> 0]]
        /\ reservations = <<>> /\ issues = <<>> /\ issue_lines = <<>>
        /\ returns = <<>> /\ return_lines = <<>>
        /\ last = Unwatched /\ watch = {"void_movement"}
        /\ txn = [t \in Txns |-> Idle]
        /\ base = DB
        /\ InitNotifier
        /\ InitReport

SpecVoidInputs == InitVoidInputs /\ [][NextLedger]_vars

\* ----------------------------------------------------------------- claims
\* C1: every StockSnapshot has on_hand >= 0, reserved >= 0 and
\* reserved <= on_hand in every state any sequence of operations reaches.
SnapshotWithinBounds ==
    \A k \in Keys :
        /\ snapshots[k].on_hand >= 0
        /\ snapshots[k].reserved >= 0
        /\ snapshots[k].reserved <= snapshots[k].on_hand

\* a work order has consumed from a snapshot that is now fully reserved
SnapshotFullyReservedAfterConsume ==
    /\ Len(issue_lines) > 0
    /\ \E k \in Keys : snapshots[k].on_hand > 0
                       /\ snapshots[k].reserved = snapshots[k].on_hand

\* C2: every reversal points to an original that is flagged void, and is the
\* only reversal of that original.
ReversalPairing ==
    \A i \in 1..Len(movements) :
        movements[i].void_of # 0 =>
            /\ movements[movements[i].void_of].is_void
            /\ \A j \in 1..Len(movements) :
                   movements[j].void_of = movements[i].void_of => j = i

\* a movement has been voided and another movement registered after it
ReversalExists ==
    \E i \in 1..Len(movements) : movements[i].void_of # 0 /\ i < Len(movements)

\* C3: registerMovement with qty > 0: IN always succeeds and adds qty to
\* on_hand; OUT succeeds iff qty <= on_hand - reserved and then subtracts qty,
\* otherwise nothing changes; a success appends exactly one movement and
\* leaves reserved alone.
RegisterMovementContract ==
    (last.op = "register_movement" /\ last.qty > 0 /\ last.type \in {IN_, OUT}) =>
      LET k == last.key
          q == last.qty
          s == before.snap[k]
          applied == /\ last.res.ok
                     /\ snapshots[k].on_hand =
                           IF last.type = IN_ THEN s.on_hand + q ELSE s.on_hand - q
                     /\ snapshots[k].reserved = s.reserved
                     /\ \A o \in Keys \ {k} : snapshots[o] = before.snap[o]
                     /\ movements = Append(before.mov,
                                            NewMovement(k, last.type, q, FALSE, 0))
                     /\ last.res.ret.new_on_hand = snapshots[k].on_hand
                     /\ last.res.ret.movement_id = Len(movements)
      IN IF last.type = IN_ \/ q <= s.on_hand - s.reserved
         THEN applied
         ELSE ~last.res.ok /\ DB = before

\* IN q then OUT q on an empty snapshot has returned on_hand = 0
RoundTripReturnsZero ==
    /\ last.op = "register_movement" /\ last.type = OUT /\ last.res.ok
    /\ last.res.ret.new_on_hand = 0
    /\ Len(movements) = 2
    /\ movements[1].movement_type = IN_ /\ movements[1].quantity = last.qty
    /\ <<movements[1].item, movements[1].location>> = last.key

\* C5: a transfer whose quantity exceeds what is available at the source
\* (on_hand - reserved) fails as a whole: no movement is created and both
\* snapshots, their existence included, stay as they were.
FailedTransferChangesNothing ==
    (/\ last.op = "transfer"
     /\ last.qty > 0
     /\ last.from # last.to
     /\ last.qty > available(before.snap[<<last.item, last.from>>])) =>
        ~last.res.ok /\ DB = before

\* a transfer has failed only because of the reserved stock at the source,
\* towards a destination that has no snapshot row
TransferRefusedForReserved ==
    /\ last.op = "transfer" /\ ~last.res.ok
    /\ last.qty > 0 /\ last.from # last.to
    /\ snapshots[<<last.item, last.from>>].reserved > 0
    /\ last.qty <= snapshots[<<last.item, last.from>>].on_hand
    /\ last.qty > available(snapshots[<<last.item, last.from>>])
    /\ ~snapshots[<<last.item, last.to>>].exists

\* C6: a successful transfer takes qty from the source's on_hand and adds it to
\* the destination's, appends one OUT at the source and one IN at the
\* destination, leaves both reserved amounts alone and conserves the total
\* on_hand over the two locations.
TransferMovesStock ==
    (last.op = "transfer" /\ last.res.ok) =>
      LET f == <<last.item, last.from>>
          t == <<last.item, last.to>>
          q == last.qty
      IN /\ snapshots[f].on_hand = before.snap[f].on_hand - q
         /\ snapshots[t].on_hand = before.snap[t].on_hand + q
         /\ snapshots[f].reserved = before.snap[f].reserved
         /\ snapshots[t].reserved = before.snap[t].reserved
         /\ snapshots[f].on_hand + snapshots[t].on_hand =
               before.snap[f].on_hand + before.snap[t].on_hand
         /\ \A o \in Keys \ {f, t} : snapshots[o] = before.snap[o]
         /\ movements = before.mov \o <<NewMovement(f, OUT, q, FALSE, 0),
                                         NewMovement(t, IN_, q, FALSE, 0)>>
         /\ last.res.ret.from_new_on_hand = snapshots[f].on_hand
         /\ last.res.ret.to_new_on_hand = snapshots[t].on_hand

\* a transfer has succeeded out of a source that keeps reserved stock, into
\* a destination that had no snapshot row before
TransferSucceededBesideReserved ==
    /\ last.op = "transfer" /\ last.res.ok
    /\ snapshots[<<last.item, last.from>>].reserved > 0
    /\ snapshots[<<last.item, last.to>>].on_hand = last.qty
    /\ Len(movements) >= 2
    /\ movements[Len(movements)].movement_type = IN_
    /\ movements[Len(movements) - 1].movement_type = OUT
\* C9: a valid adjustment commits: adjust_delta with delta # 0, a non-empty
\* reason and on_hand + delta >= max(reserved, 0), and adjust_set with a
\* non-empty reason and new_on_hand >= reserved (and >= 0), each succeed, set
\* on_hand to the target, append exactly one ADJ movement and return the new
\* on_hand.
ValidAdjustmentCommits ==
    [][(/\ last'.op \in {"adjust_delta", "adjust_set"}
        /\ strip(last'.reason) # ""
        /\ LET s == snapshots[last'.key]
           IN IF last'.op = "adjust_delta"
              THEN /\ last'.delta # 0
                   /\ s.on_hand + last'.delta >= s.reserved
                   /\ s.on_hand + last'.delta >= 0
              ELSE /\ last'.new_on_hand >= 0
                   /\ last'.new_on_hand >= s.reserved) =>
         LET k == last'.key
             s == snapshots[k]
             target == IF last'.op = "adjust_delta" THEN s.on_hand + last'.delta
                       ELSE last'.new_on_hand
         IN /\ last'.res.ok
            /\ snapshots'[k].on_hand = target
            /\ snapshots'[k].reserved = s.reserved
            /\ movements' = Append(movements,
                                   NewMovement(k, ADJ, abs(target - s.on_hand), FALSE, 0))
            /\ last'.res.ret.new_on_hand = target]_vars

\* a valid positive adjust_delta has been answered with the TypeError of the
\* result's constructor, and the store holds no trace of it
ValidAdjustmentRolledBack ==
    /\ last.op = "adjust_delta" /\ last.delta > 0 /\ strip(last.reason) # ""
    /\ ~last.res.ok /\ last.res.err = "TypeError"
    /\ movements = <<>>
    /\ ~snapshots[last.key].exists

\* C10: a void of an IN movement succeeds only if the movement's quantity is
\* at most on_hand - reserved of its snapshot; when the quantity exceeds it
\* (part of the received stock is reserved) the void fails and the snapshot,
\* the original (is_void still false) and the movement log stay as they were.
VoidOfInNeedsAvailable ==
    (/\ last.op = "void_movement"
     /\ last.id # 0
     /\ before.mov[last.id].movement_type = IN_) =>
      LET m == before.mov[last.id]
          s == before.snap[<<m.item, m.location>>]
      IN /\ last.res.ok => m.quantity <= available(s)
         /\ m.quantity > available(s) =>
               /\ ~last.res.ok
               /\ DB = before
               /\ movements[last.id].is_void = m.is_void

\* the void of a live IN of quantity Q, asked with a reason, has failed on a
\* snapshot that holds exactly those Q with part of them reserved
VoidOfInRefusedForReserved ==
    /\ last.op = "void_movement" /\ ~last.res.ok /\ last.id # 0
    /\ strip(last.reason) # ""
    /\ Len(movements) = 1
    /\ movements[last.id].movement_type = IN_
    /\ ~movements[last.id].is_void
    /\ LET m == movements[last.id]
           s == snapshots[<<m.item, m.location>>]
       IN s.on_hand = m.quantity /\ s.reserved > 0 /\ s.reserved < m.quantity
\* what a request draws from the available stock of snapshot k
draw(req, k) ==
    IF req.op = "register_movement" /\ req.type = OUT /\ req.key = k THEN req.qty
    ELSE IF req.op = "reserve" /\ req.key = k THEN req.qty
    ELSE IF req.op = "wo_reserve" /\ <<req.line[2], req.location>> = k THEN req.qty
    ELSE 0

AllDone == \A t \in Txns : txn[t].pc = "done"
SameOutcome(r, res) == r.ok = res.ok /\ Outcome(r) = res

\* C4: two ledger mutations served at the same time are serialized by the
\* snapshot row lock: once both have ended, the store and both answers are
\* those of running the two requests one after the other in some order on
\* the store they found, and two requests that draw on the same snapshot
\* (OUT or reserve) for more than was available never both succeed.
SerializedByRowLock ==
    AllDone =>
        /\ \E t \in Txns :
              LET r1 == run(txn[t].req, base)
                  r2 == run(txn[Peer(t)].req, r1.db)
              IN /\ r2.db = DB
                 /\ SameOutcome(r1, txn[t].res)
                 /\ SameOutcome(r2, txn[Peer(t)].res)
        /\ \A k \in Keys, t \in Txns :
              (/\ draw(txn[t].req, k) > 0
               /\ draw(txn[Peer(t)].req, k) > 0
               /\ draw(txn[t].req, k) + draw(txn[Peer(t)].req, k) > available(base.snap[k]))
                 => ~(txn[t].res.ok /\ txn[Peer(t)].res.ok)

\* two OUT requests on the same snapshot overlapped, each within what was
\* available and together beyond it: one was applied, the other refused
ConcurrentOutsOneRefused ==
    /\ AllDone
    /\ \A t \in Txns : txn[t].overlapped
                         /\ txn[t].req.op = "register_movement"
                         /\ txn[t].req.type = OUT
                         /\ txn[t].req.key = txn[1].req.key
                         /\ txn[t].req.qty <= available(base.snap[txn[t].req.key])
    /\ txn[1].req.qty + txn[2].req.qty > available(base.snap[txn[1].req.key])
    /\ txn[1].res.ok # txn[2].res.ok

\* t and u are transfers of the same item between the same two locations in
\* opposite directions
OppositeTransfers(t, u) ==
    /\ txn[t].req.op = "transfer" /\ txn[u].req.op = "transfer"
    /\ txn[t].req.item = txn[u].req.item
    /\ txn[t].req.from = txn[u].req.to
    /\ txn[t].req.to = txn[u].req.from

\* C7: two transfers of the same item in opposite directions between the same
\* two locations never deadlock: each holds its snapshot locks in ascending
\* location order, neither waits for the other while the other waits for it,
\* and at every moment one of them has a step to take.
OppositeTransfersNeverDeadlock ==
    \A t \in Txns :
        (Running(t) /\ Running(Peer(t)) /\ OppositeTransfers(t, Peer(t))) =>
            /\ \A i \in 1..Len(txn[t].held), j \in 1..Len(txn[t].held) :
                   i < j => txn[t].held[i].id[2] < txn[t].held[j].id[2]
            /\ ~CircularWait(t, Peer(t))
            /\ CanStep(t) \/ CanStep(Peer(t))

\* two opposite transfers that overlapped have both ended, both applied
OppositeTransfersBothDone ==
    /\ AllDone
    /\ OppositeTransfers(1, 2)
    /\ \A t \in Txns : txn[t].overlapped /\ txn[t].res.ok

\* C8: a consume of several lines takes its snapshot locks in one global
\* order, so it never waits for a consume or a transfer that waits for it.
ConsumeNeverInCircularWait ==
    \A t \in Txns :
        (Running(t) /\ Running(Peer(t)) /\ txn[t].req.op = "consume") =>
            ~CircularWait(t, Peer(t))

\* a consume that drew its first line from a reservation and a transfer wait
\* for each other's snapshot
ConsumeAndTransferDeadlocked ==
    \E t \in Txns :
        /\ Running(t) /\ Running(Peer(t))
        /\ txn[t].req.op = "consume" /\ txn[Peer(t)].req.op = "transfer"
        /\ txn[t].req.lines[1].reservation # 0
        /\ CircularWait(t, Peer(t))

\* C11: void_movement is rejected, creating no movement and changing no
\* snapshot, whenever the target is already void, already has a reversal, is
\* of type ADJ, or the reason is empty.
VoidRejected ==
    (/\ last.op = "void_movement"
     /\ last.id # 0
     /\ \/ before.mov[last.id].is_void
        \/ has_reversal(before.mov, last.id)
        \/ before.mov[last.id].movement_type = ADJ
        \/ strip(last.reason) = "") =>
      ~last.res.ok /\ DB = before

\* the void of a live ADJ movement, asked with a reason, has been refused
VoidOfAdjRefused ==
    /\ last.op = "void_movement" /\ last.id # 0 /\ ~last.res.ok
    /\ strip(last.reason) # ""
    /\ movements[last.id].movement_type = ADJ
    /\ ~movements[last.id].is_void
    /\ ~has_reversal(movements, last.id)

\* C12: a successful void_movement of an original of quantity q appends exactly
\* one movement of the inverse type (OUT for an IN, IN for an OUT), quantity q,
\* is_void and void_of = original; flags the original is_void; and moves the
\* on_hand of the original's snapshot by -q for an IN, +q for an OUT, with
\* reserved and everything else unchanged.
VoidAppendsInverse ==
    (last.op = "void_movement" /\ last.res.ok) =>
      LET id == last.id
          original == before.mov[id]
          q == original.quantity
          k == <<original.item, original.location>>
          n == Len(before.mov)
      IN /\ original.movement_type \in {IN_, OUT}
         /\ Len(movements) = n + 1
         /\ movements[n + 1].movement_type =
              (IF original.movement_type = IN_ THEN OUT ELSE IN_)
         /\ movements[n + 1].quantity = q
         /\ movements[n + 1].is_void
         /\ movements[n + 1].void_of = id
         /\ movements[n + 1].item = original.item
         /\ movements[n + 1].location = original.location
         /\ ~original.is_void
         /\ movements[id] = [original EXCEPT !.is_void = TRUE]
         /\ \A i \in (1..n) \ {id} : movements[i] = before.mov[i]
         /\ snapshots[k].on_hand = before.snap[k].on_hand
              + (IF original.movement_type = IN_ THEN 0 - q ELSE q)
         /\ snapshots[k].reserved = before.snap[k].reserved
         /\ \A j \in Keys \ {k} : snapshots[j] = before.snap[j]
         /\ /\ workorders = before.wo
            /\ wo_lines = before.lines
            /\ reservations = before.res
            /\ issues = before.issues
            /\ issue_lines = before.issue_lines
            /\ returns = before.returns
            /\ return_lines = before.return_lines

\* an OUT has been voided beside reserved stock: on_hand is back above reserved
VoidedOutBesideReserved ==
    /\ last.op = "void_movement" /\ last.res.ok
    /\ movements[last.id].movement_type = OUT
    /\ movements[last.id].is_void
    /\ movements[Len(movements)].void_of = last.id
    /\ movements[Len(movements)].movement_type = IN_
    /\ snapshots[<<movements[last.id].item, movements[last.id].location>>].reserved > 0

\* C13: the ledger's reserve(qty > 0) succeeds if and only if
\* qty <= on_hand - reserved; on success reserved grows by qty while on_hand
\* and the movement log are unchanged; on failure nothing changes.
ReserveContract ==
    (last.op = "reserve" /\ last.qty > 0) =>
      LET k == last.key
          s == before.snap[k]
      IN /\ last.res.ok <=> last.qty <= s.on_hand - s.reserved
         /\ last.res.ok =>
              /\ snapshots = [before.snap EXCEPT ![k].reserved = @ + last.qty]
              /\ /\ movements = before.mov
                 /\ workorders = before.wo
                 /\ wo_lines = before.lines
                 /\ reservations = before.res
                 /\ issues = before.issues
                 /\ issue_lines = before.issue_lines
                 /\ returns = before.returns
                 /\ return_lines = before.return_lines
         /\ ~last.res.ok => DB = before

\* exactly the available amount has been reserved on top of an earlier reserve
ReservedExactlyAvailable ==
    /\ last.op = "reserve" /\ last.res.ok
    /\ snapshots[last.key].reserved = snapshots[last.key].on_hand
    /\ snapshots[last.key].reserved > last.qty

\* C14: the ledger's release(qty > 0) succeeds if and only if qty <= reserved;
\* on success reserved shrinks by qty while on_hand and the movement log are
\* unchanged; on failure nothing changes.
ReleaseContract ==
    (last.op = "release" /\ last.qty > 0) =>
      LET k == last.key
          s == before.snap[k]
      IN /\ last.res.ok <=> last.qty <= s.reserved
         /\ last.res.ok =>
              /\ snapshots = [before.snap EXCEPT ![k].reserved = @ - last.qty]
              /\ /\ movements = before.mov
                 /\ workorders = before.wo
                 /\ wo_lines = before.lines
                 /\ reservations = before.res
                 /\ issues = before.issues
                 /\ issue_lines = before.issue_lines
                 /\ returns = before.returns
                 /\ return_lines = before.return_lines
         /\ ~last.res.ok => DB = before

\* part of the reserved amount has been released
ReleasedPartOfReserved ==
    /\ last.op = "release" /\ last.res.ok
    /\ snapshots[last.key].reserved > 0
    /\ snapshots[last.key].on_hand >= snapshots[last.key].reserved + last.qty

\* C15: multi-line consume and return_to_stock are all-or-nothing: when any
\* line of the batch fails, nothing of the lines before it is left: no issue
\* or return header or lines, no movement, no change to any snapshot,
\* reservation, line cache or the work order status.
BatchAllOrNothing ==
    (last.op \in {"consume", "return_to_stock"} /\ ~last.res.ok) =>
      DB = before

\* a consume has failed on its second line after its first line went through
ConsumeFailedAtSecondLine ==
    /\ last.op = "consume" /\ ~last.res.ok
    /\ Len(last.lines) = 2
    /\ workorders[last.wo].status \in {APPROVED, IN_PROGRESS}
    /\ LET d1 == [DB EXCEPT !.issues = Append(@, last.wo)]
       IN consume_line(d1, last.wo, Len(d1.issues), last.lines[1]).ok

\* C16: the work order's reserve(line, qty > 0, location) succeeds only when
\* the status is DRAFT, APPROVED or IN_PROGRESS and qty <= available of the
\* (line.item, location) snapshot; on success it adds qty to snapshot.reserved,
\* creates one Reservation with status ACTIVE and quantity qty, and adds qty to
\* line.qty_reserved, with on_hand and the movement log unchanged; in any other
\* status, or without a location, it fails and changes nothing.
WoReserveContract ==
    (last.op = "wo_reserve" /\ last.qty > 0) =>
      LET line == last.line
          wo == line[1]
          qty == last.qty
          k == <<line[2], last.location>>
          n == Len(before.res)
      IN /\ last.res.ok =>
              /\ before.wo[wo].status \in {DRAFT, APPROVED, IN_PROGRESS}
              /\ last.location # 0
              /\ qty <= before.snap[k].on_hand - before.snap[k].reserved
              /\ snapshots = [before.snap EXCEPT ![k].reserved = @ + qty]
              /\ Len(reservations) = n + 1
              /\ SubSeq(reservations, 1, n) = before.res
              /\ reservations[n + 1].status = ACTIVE
              /\ reservations[n + 1].quantity = qty
              /\ reservations[n + 1].work_order = wo
              /\ reservations[n + 1].line = line
              /\ reservations[n + 1].item = line[2]
              /\ reservations[n + 1].location = last.location
              /\ wo_lines = [before.lines EXCEPT ![line].qty_reserved = @ + qty]
              /\ /\ movements = before.mov
                 /\ workorders = before.wo
                 /\ issues = before.issues
                 /\ issue_lines = before.issue_lines
                 /\ returns = before.returns
                 /\ return_lines = before.return_lines
         /\ (\/ before.wo[wo].status \notin {DRAFT, APPROVED, IN_PROGRESS}
             \/ last.location = 0) =>
              ~last.res.ok /\ DB = before

\* an IN_PROGRESS work order has reserved exactly what was available
ReservedAllWhileInProgress ==
    /\ last.op = "wo_reserve" /\ last.res.ok
    /\ workorders[last.line[1]].status = IN_PROGRESS
    /\ snapshots[<<last.line[2], last.location>>].reserved =
         snapshots[<<last.line[2], last.location>>].on_hand
    /\ reservations[Len(reservations)].status = ACTIVE

\* C17: release_reservation is accepted only for a reservation in status
\* ACTIVE and a release quantity r with 0 < r <= reservation.quantity (r is the
\* full quantity when none is given); it takes r off snapshot.reserved and
\* line.qty_reserved; when r equals the reservation quantity the status becomes
\* RELEASED with released_at set, otherwise the status stays ACTIVE and the
\* reservation quantity shrinks by r.
ReleaseReservationContract ==
    (last.op = "release_reservation" /\ last.res.ok) =>
      LET id == last.id
          res == before.res[id]
          r == IF last.qty = None THEN res.quantity ELSE last.qty
          k == <<res.item, res.location>>
      IN /\ res.status = ACTIVE
         /\ 0 < r /\ r <= res.quantity
         /\ snapshots = [before.snap EXCEPT ![k].reserved = @ - r]
         /\ wo_lines = [before.lines EXCEPT ![res.line].qty_reserved = @ - r]
         /\ reservations = [before.res EXCEPT ![id] =
              IF r = res.quantity
              THEN [res EXCEPT !.status = RELEASED, !.released = TRUE]
              ELSE [res EXCEPT !.quantity = @ - r]]
         /\ /\ movements = before.mov
            /\ workorders = before.wo
            /\ issues = before.issues
            /\ issue_lines = before.issue_lines
            /\ returns = before.returns
            /\ return_lines = before.return_lines

\* part of a reservation has been released and the rest is still held
ReservationPartlyReleased ==
    /\ last.op = "release_reservation" /\ last.res.ok
    /\ last.qty # None
    /\ reservations[last.id].status = ACTIVE
    /\ reservations[last.id].quantity > 0
    /\ ~reservations[last.id].released
    /\ snapshots[<<reservations[last.id].item, reservations[last.id].location>>].reserved
         = reservations[last.id].quantity

\* C18: consume is accepted only when the work order is APPROVED or
\* IN_PROGRESS. Each line of quantity q that names a reservation finds it
\* ACTIVE, of the line's item and location and with quantity >= q, and takes q
\* off snapshot.reserved, reservation.quantity and the reservation line's
\* qty_reserved, the reservation becoming CONSUMED when nothing is left of it;
\* every line registers one OUT movement of q, takes q off on_hand, creates one
\* WorkOrderIssueLine linked to that movement and adds q to line.qty_consumed.
\* Where every line is drawn from a reservation, available stays as it was.
ConsumeContract ==
    (last.op = "consume" /\ last.res.ok) =>
      LET wo == last.wo
          lines == last.lines
          n == Len(lines)
          m == Len(before.mov)
          il == Len(before.issue_lines)
          RECURSIVE sum(_)
          sum(I) == IF I = {} THEN 0
                    ELSE LET i == CHOOSE i \in I : TRUE
                         IN lines[i].qty + sum(I \ {i})
          at(k) == {i \in 1..n : <<lines[i].item, lines[i].location>> = k}
          held(k) == {i \in at(k) : lines[i].reservation # 0}
          from(id) == {i \in 1..n : lines[i].reservation = id}
          of(l) == {i \in 1..n : <<wo, lines[i].item>> = l}
          off(l) == {i \in 1..n : /\ lines[i].reservation # 0
                                  /\ before.res[lines[i].reservation].line = l}
      IN /\ before.wo[wo].status \in {APPROVED, IN_PROGRESS}
         /\ \A i \in 1..n :
              /\ lines[i].qty > 0
              /\ lines[i].reservation # 0 =>
                   LET res == before.res[lines[i].reservation]
                   IN /\ res.status = ACTIVE
                      /\ res.item = lines[i].item
                      /\ res.location = lines[i].location
                      /\ res.quantity >= lines[i].qty
              /\ movements[m + i] = NewMovement(<<lines[i].item, lines[i].location>>,
                                                 OUT, lines[i].qty, FALSE, 0)
              /\ issue_lines[il + i].movement_out = m + i
              /\ issue_lines[il + i].quantity = lines[i].qty
              /\ issue_lines[il + i].item = lines[i].item
              /\ issue_lines[il + i].location = lines[i].location
              /\ issue_lines[il + i].reservation = lines[i].reservation
              /\ issue_lines[il + i].issue = Len(issues)
         /\ Len(movements) = m + n /\ SubSeq(movements, 1, m) = before.mov
         /\ Len(issue_lines) = il + n /\ SubSeq(issue_lines, 1, il) = before.issue_lines
         /\ issues = Append(before.issues, wo)
         /\ \A k \in Keys :
              /\ snapshots[k].on_hand = before.snap[k].on_hand - sum(at(k))
              /\ snapshots[k].reserved = before.snap[k].reserved - sum(held(k))
              /\ held(k) = at(k) => available(snapshots[k]) = available(before.snap[k])
         /\ \A id \in 1..Len(before.res) :
              reservations[id] =
                [before.res[id] EXCEPT
                   !.quantity = @ - sum(from(id)),
                   !.status = IF from(id) # {} /\ before.res[id].quantity = sum(from(id))
                              THEN CONSUMED ELSE @]
         /\ Len(reservations) = Len(before.res)
         /\ \A l \in DOMAIN before.lines :
              wo_lines[l] = [before.lines[l] EXCEPT !.qty_consumed = @ + sum(of(l)),
                                                 !.qty_reserved = @ - sum(off(l))]
         /\ /\ returns = before.returns
            /\ return_lines = before.return_lines

\* two lines have been consumed against one reservation, which is now CONSUMED
ReservationConsumedByTwoLines ==
    /\ last.op = "consume" /\ last.res.ok
    /\ Len(last.lines) = 2
    /\ last.lines[1].reservation # 0
    /\ last.lines[2].reservation = last.lines[1].reservation
    /\ reservations[last.lines[1].reservation].status = CONSUMED
    /\ reservations[last.lines[1].reservation].quantity = 0

\* C19: a successful consume on an APPROVED work order moves it to
\* IN_PROGRESS and sets started_at; a consume on an IN_PROGRESS work order
\* leaves status and started_at as they were; and started_at, once set, is
\* never changed by any later consume, pause, resume, complete or return: only
\* that first consume writes it.
StartedAtSetOnce ==
    [][/\ (last'.op = "consume" /\ last'.res.ok) =>
            /\ workorders[last'.wo].status = APPROVED =>
                 /\ workorders'[last'.wo].status = IN_PROGRESS
                 /\ workorders[last'.wo].started_at = 0
                 /\ workorders'[last'.wo].started_at # 0
            /\ workorders[last'.wo].status = IN_PROGRESS =>
                 workorders'[last'.wo] = workorders[last'.wo]
       /\ \A w \in WorkOrders :
            /\ workorders[w].started_at # 0 =>
                 workorders'[w].started_at = workorders[w].started_at
            /\ workorders'[w].started_at # workorders[w].started_at =>
                 /\ last'.op = "consume" /\ last'.res.ok /\ last'.wo = w
                 /\ workorders[w].status = APPROVED]_vars

\* a second consume has gone through on a work order already IN_PROGRESS
SecondConsumeInProgress ==
    /\ last.op = "consume" /\ last.res.ok
    /\ Len(issues) = 2
    /\ workorders[last.wo].status = IN_PROGRESS
    /\ workorders[last.wo].started_at # 0

\* C20: return_to_stock is accepted only when the work order is IN_PROGRESS or
\* COMPLETED; every line of quantity q registers one IN movement of q, adds q
\* to on_hand, creates one WorkOrderReturnLine linked to that movement and adds
\* q to line.qty_returned; it never changes snapshot.reserved, any Reservation,
\* line.qty_reserved, line.qty_consumed or the work order status.
ReturnContract ==
    (last.op = "return_to_stock" /\ last.res.ok) =>
      LET wo == last.wo
          lines == last.lines
          n == Len(lines)
          m == Len(before.mov)
          rl == Len(before.return_lines)
          RECURSIVE sum(_)
          sum(I) == IF I = {} THEN 0
                    ELSE LET i == CHOOSE i \in I : TRUE
                         IN lines[i].qty + sum(I \ {i})
          at(k) == {i \in 1..n : <<lines[i].item, lines[i].location>> = k}
          of(l) == {i \in 1..n : <<wo, lines[i].item>> = l}
      IN /\ before.wo[wo].status \in {IN_PROGRESS, COMPLETED}
         /\ \A i \in 1..n :
              /\ lines[i].qty > 0
              /\ movements[m + i] = NewMovement(<<lines[i].item, lines[i].location>>,
                                                 IN_, lines[i].qty, FALSE, 0)
              /\ return_lines[rl + i].movement_in = m + i
              /\ return_lines[rl + i].quantity = lines[i].qty
              /\ return_lines[rl + i].item = lines[i].item
              /\ return_lines[rl + i].location = lines[i].location
              /\ return_lines[rl + i].work_order_return = Len(returns)
         /\ Len(movements) = m + n /\ SubSeq(movements, 1, m) = before.mov
         /\ Len(return_lines) = rl + n
         /\ SubSeq(return_lines, 1, rl) = before.return_lines
         /\ returns = Append(before.returns, wo)
         /\ \A k \in Keys :
              /\ snapshots[k].on_hand = before.snap[k].on_hand + sum(at(k))
              /\ snapshots[k].reserved = before.snap[k].reserved
         /\ \A l \in DOMAIN before.lines :
              wo_lines[l] = [before.lines[l] EXCEPT !.qty_returned = @ + sum(of(l))]
         /\ /\ reservations = before.res
            /\ workorders = before.wo
            /\ issues = before.issues
            /\ issue_lines = before.issue_lines

\* two lines have been returned to one snapshot that holds an ACTIVE reservation
TwoLinesReturnedBesideReservation ==
    /\ last.op = "return_to_stock" /\ last.res.ok
    /\ Len(last.lines) = 2
    /\ last.lines[1].location = last.lines[2].location
    /\ snapshots[<<last.lines[1].item, last.lines[1].location>>].reserved > 0
    /\ \E id \in 1..Len(reservations) : reservations[id].status = ACTIVE

\* C21: after any sequence of work order reserve, release_reservation,
\* consume, return_to_stock and cancel, recompute_line_caches changes nothing:
\* every line's qty_reserved is the sum of its ACTIVE reservations, qty_consumed
\* the sum of the work order's issue lines of the item and qty_returned the sum
\* of its return lines of the item; recomputing twice gives what once gives.
CachesMatchChildRows ==
    \A wo \in WorkOrders :
        LET once == recompute_line_caches(DB, wo)
            twice == recompute_line_caches(once.db, wo)
        IN /\ once.ok /\ once.db = DB
           /\ twice.ok /\ twice.db = once.db

\* the caches have been recomputed on a line with stock held, consumed and
\* returned
RecomputedWithAllThreeCaches ==
    /\ last.op = "recompute_line_caches" /\ last.res.ok
    /\ \E l \in DOMAIN wo_lines :
         /\ l[1] = last.wo
         /\ wo_lines[l].qty_reserved > 0
         /\ wo_lines[l].qty_consumed > 0
         /\ wo_lines[l].qty_returned > 0

\* C22: every change of WorkOrder.status follows one of these edges only:
\* DRAFT->APPROVED (approve), APPROVED->IN_PROGRESS (consume),
\* IN_PROGRESS->PAUSED (pause), PAUSED->IN_PROGRESS (resume),
\* IN_PROGRESS->COMPLETED (complete), COMPLETED->CLOSED (close),
\* DRAFT->CANCELLED and APPROVED->CANCELLED (cancel); CANCELLED and CLOSED are
\* never left.
StatusFollowsEdges ==
    [][\A w \in WorkOrders :
         workorders'[w].status # workorders[w].status =>
           /\ <<workorders[w].status, workorders'[w].status, last'.op>> \in
                {<<DRAFT, APPROVED, "approve">>,
                 <<APPROVED, IN_PROGRESS, "consume">>,
                 <<IN_PROGRESS, PAUSED, "pause">>,
                 <<PAUSED, IN_PROGRESS, "resume">>,
                 <<IN_PROGRESS, COMPLETED, "complete">>,
                 <<COMPLETED, "CLOSED", "close">>,
                 <<DRAFT, CANCELLED, "cancel">>,
                 <<APPROVED, CANCELLED, "cancel">>}
           /\ last'.wo = w /\ last'.res.ok
           /\ workorders[w].status \notin {CANCELLED, "CLOSED"}]_vars

\* a paused work order has been resumed
ResumedAfterPause ==
    /\ last.op = "resume" /\ last.res.ok
    /\ workorders[last.wo].status = IN_PROGRESS
    /\ workorders[last.wo].started_at # 0

\* C23: close applied to a work order in status COMPLETED succeeds and leaves
\* it in status CLOSED; applied in any other status it fails and leaves the
\* status unchanged.
CloseContract ==
    [][last'.op = "close" =>
         IF workorders[last'.wo].status = COMPLETED
         THEN last'.res.ok /\ workorders'[last'.wo].status = "CLOSED"
         ELSE ~last'.res.ok /\ workorders'[last'.wo].status = workorders[last'.wo].status]_vars

\* the close of a COMPLETED work order has ended in AttributeError and the
\* work order is still COMPLETED
CloseOfCompletedFailed ==
    /\ last.op = "close" /\ ~last.res.ok
    /\ last.res.err = "AttributeError"
    /\ workorders[last.wo].status = COMPLETED

\* C24: complete fails, leaving the status unchanged, on every work order
\* with zero WorkOrderIssueLine rows; on a work order IN_PROGRESS with at least
\* one issue line it succeeds and sets the status to COMPLETED.
CompleteNeedsConsumption ==
    last.op = "complete" =>
      LET wo == last.wo
          issued == {i \in 1..Len(before.issue_lines) :
                       before.issues[before.issue_lines[i].issue] = wo}
      IN /\ issued = {} =>
              ~last.res.ok /\ workorders[wo].status = before.wo[wo].status
         /\ (before.wo[wo].status = IN_PROGRESS /\ issued # {}) =>
              last.res.ok /\ workorders[wo].status = COMPLETED

\* the complete of an IN_PROGRESS work order with nothing issued was refused
CompleteRefusedWithoutIssue ==
    /\ last.op = "complete" /\ ~last.res.ok
    /\ workorders[last.wo].status = IN_PROGRESS
    /\ issue_lines = <<>>

\* C25: a successful cancel of a work order in DRAFT or APPROVED with zero
\* consumptions releases every ACTIVE reservation of the work order in the
\* same transaction: afterwards the status is CANCELLED, none of its
\* reservations is ACTIVE, each snapshot's reserved has dropped by exactly the
\* sum of the quantities released there, each line's qty_reserved is 0, and
\* on_hand and the movement log are unchanged.
CancelReleasesAll ==
    (/\ last.op = "cancel" /\ last.res.ok
     /\ before.wo[last.wo].status \in {DRAFT, APPROVED}) =>
      LET wo == last.wo
          active == {i \in 1..Len(before.res) :
                       /\ before.res[i].work_order = wo
                       /\ before.res[i].status = ACTIVE}
          at(k) == {i \in active :
                      <<before.res[i].item, before.res[i].location>> = k}
      IN /\ workorders[wo].status = CANCELLED
         /\ \A i \in 1..Len(before.issue_lines) : before.issues[before.issue_lines[i].issue] # wo
         /\ Len(reservations) = Len(before.res)
         /\ \A i \in 1..Len(before.res) :
              /\ reservations[i].work_order = wo => reservations[i].status # ACTIVE
              /\ reservations[i] =
                   IF i \in active
                   THEN [before.res[i] EXCEPT !.status = RELEASED, !.released = TRUE]
                   ELSE before.res[i]
         /\ \A k \in Keys :
              snapshots[k] = [before.snap[k] EXCEPT
                                 !.reserved = @ - aggregate_sum(before.res, at(k))]
         /\ \A l \in DOMAIN before.lines :
              wo_lines[l] = IF l[1] = wo /\ before.lines[l].exists
                             THEN [before.lines[l] EXCEPT !.qty_reserved = 0]
                             ELSE before.lines[l]
         /\ /\ movements = before.mov
            /\ issues = before.issues
            /\ issue_lines = before.issue_lines
            /\ returns = before.returns
            /\ return_lines = before.return_lines

\* a cancel has released two reservations held at two locations
CancelReleasedTwoLocations ==
    /\ last.op = "cancel" /\ last.res.ok
    /\ workorders[last.wo].status = CANCELLED
    /\ Len(reservations) = 2
    /\ reservations[1].location # reservations[2].location
    /\ \A i \in 1..2 : reservations[i].status = RELEASED /\ reservations[i].released
    /\ \A k \in Keys : snapshots[k].on_hand > 0 /\ snapshots[k].reserved = 0

\* C26: cancel on a work order that has at least one WorkOrderIssueLine always
\* fails with an error and leaves the work order status, all its reservations
\* and all snapshots unchanged.
CancelRefusedAfterIssue ==
    (/\ last.op = "cancel"
     /\ \E i \in 1..Len(before.issue_lines) :
           before.issues[before.issue_lines[i].issue] = last.wo) =>
      /\ ~last.res.ok
      /\ /\ workorders = before.wo
         /\ reservations = before.res
         /\ snapshots = before.snap

\* the cancel of a work order with an issue line and an ACTIVE reservation
\* was refused
CancelRefusedWithStockHeld ==
    /\ last.op = "cancel" /\ ~last.res.ok
    /\ \E i \in 1..Len(issue_lines) : issues[issue_lines[i].issue] = last.wo
    /\ \E i \in 1..Len(reservations) :
         reservations[i].work_order = last.wo /\ reservations[i].status = ACTIVE

\* C27: every workflow request whose transition is not allowed from the
\* current status (approve outside DRAFT, pause outside IN_PROGRESS, resume
\* outside PAUSED, complete outside IN_PROGRESS, close outside COMPLETED,
\* cancel outside DRAFT/APPROVED, a CANCELLED work order included) fails with
\* an error and leaves the status unchanged; none returns success silently.
IllegalTransitionFails ==
    [][(/\ last'.op \in {"approve", "pause", "resume", "complete", "close", "cancel"}
        /\ workorders[last'.wo].status \notin
             (CASE last'.op = "approve" -> {DRAFT}
                [] last'.op = "pause" -> {IN_PROGRESS}
                [] last'.op = "resume" -> {PAUSED}
                [] last'.op = "complete" -> {IN_PROGRESS}
                [] last'.op = "close" -> {COMPLETED}
                [] last'.op = "cancel" -> {DRAFT, APPROVED})) =>
         /\ ~last'.res.ok
         /\ workorders'[last'.wo].status = workorders[last'.wo].status]_vars

\* ------------------------------------------------------ InventoryNotifier
\* the stock figures a severity is computed from: a missing value or a quantity
StockInputs == {None} \cup 0..(MaxQty + 1)

\* compute_severity with the alert starting one unit too low (a variant the
\* boundary on_hand = min_stock tells apart)
compute_severity_below_min(on_hand, reserved, min_stock) ==
    LET h == IF on_hand = None THEN 0 ELSE on_hand
        r == IF reserved = None THEN 0 ELSE reserved
        m == IF min_stock = None THEN 0 ELSE min_stock
    IN IF h >= m THEN None
       ELSE IF h - r <= 0 THEN CRITICAL
       ELSE IF r > 0 THEN HIGH
       ELSE MEDIUM

\* InventoryNotifier.compute_severity: None is "no alert"
compute_severity(on_hand, reserved, min_stock) ==
    LET h == IF on_hand = None THEN 0 ELSE on_hand
        r == IF reserved = None THEN 0 ELSE reserved
        m == IF min_stock = None THEN 0 ELSE min_stock
    IN IF h > m THEN None
       ELSE LET available_ == h - r
            IN IF available_ <= 0 THEN CRITICAL
               ELSE IF r > 0 THEN HIGH
               ELSE MEDIUM

\* a call of compute_severity: it reads nothing but its arguments
ComputeSeverity(on_hand, reserved, min_stock) ==
    /\ last' = [op |-> "compute_severity", on_hand |-> on_hand, reserved |-> reserved,
                min_stock |-> min_stock,
                ret |-> compute_severity(on_hand, reserved, min_stock)]
    /\ UNCHANGED <<store, watch, txn, base, notifier, report>>

NextSeverity ==
    \E on_hand \in StockInputs, reserved \in StockInputs, min_stock \in StockInputs :
        ComputeSeverity(on_hand, reserved, min_stock)

SpecSeverity == InitWatching({"compute_severity"}) /\ [][NextSeverity]_vars

\* C28: compute_severity answers "no alert" exactly when on_hand > min_stock;
\* otherwise CRITICAL when on_hand - reserved <= 0, else HIGH when reserved > 0,
\* else MEDIUM.  At on_hand = min_stock > 0 with nothing reserved it answers
\* MEDIUM.
SeverityByThreshold ==
    (/\ last.op = "compute_severity"
     /\ None \notin {last.on_hand, last.reserved, last.min_stock})
    => /\ last.ret = None <=> last.on_hand > last.min_stock
       /\ last.on_hand <= last.min_stock =>
             last.ret = IF last.on_hand - last.reserved <= 0 THEN CRITICAL
                        ELSE IF last.reserved > 0 THEN HIGH
                        ELSE MEDIUM
       /\ (last.on_hand = last.min_stock /\ last.reserved = 0 /\ last.on_hand > 0)
             => last.ret = MEDIUM

\* stock exactly at the minimum, nothing reserved: a MEDIUM alert
MediumAtTheMinimum ==
    /\ last.op = "compute_severity"
    /\ last.on_hand = last.min_stock
    /\ last.on_hand > 0
    /\ last.reserved = 0
    /\ last.ret = MEDIUM

\* InventoryNotifier._cooldown_seconds
cooldown_seconds(severity) ==
    IF severity = CRITICAL THEN NOTIFY_COOLDOWN_CRITICAL_MIN * 60
    ELSE IF severity = HIGH THEN NOTIFY_COOLDOWN_HIGH_MIN * 60
    ELSE NOTIFY_COOLDOWN_MEDIUM_MIN * 60

\* InventoryNotifier._cache_key
cache_key(item_id, location_id, severity) == <<item_id, location_id, severity>>

\* a cache that never finds an entry
cache_get_missing(entries, t, key) == FALSE

\* cache.get(key): the value stored under key (True) while the entry has not
\* expired, nothing otherwise
cache_get(entries, t, key) == entries[key] # NoEntry /\ entries[key] > t

\* cache.set(key, True, timeout): the entry expires timeout seconds from now
cache_set(entries, t, key, timeout) == [entries EXCEPT ![key] = t + timeout]

\* InventoryNotifier.should_send, run from its first line to its return
should_send(entries, t, item_id, location_id, severity) ==
    LET key == cache_key(item_id, location_id, severity)
    IN IF cache_get(entries, t, key)
       THEN [ret |-> FALSE, cache |-> entries]
       ELSE [ret |-> TRUE,
             cache |-> cache_set(entries, t, key, cooldown_seconds(severity))]

RECURSIVE total_alerts(_)
total_alerts(keys) ==
    IF keys = {} THEN 0
    ELSE LET key == CHOOSE k \in keys : TRUE
         IN Len(alerts[key]) + total_alerts(keys \ {key})

\* a call of should_send by a caller that has the notifier to itself
ShouldSend(item_id, location_id, severity) ==
    LET key == cache_key(item_id, location_id, severity)
        r == should_send(cache, clock, item_id, location_id, severity)
    IN /\ total_alerts(AlertKeys) < MaxAlerts
       /\ cache' = r.cache
       /\ alerts' = IF r.ret THEN [alerts EXCEPT ![key] = Append(@, clock)] ELSE alerts
       /\ last' = [op |-> "should_send", key |-> key, at |-> clock, ret |-> r.ret]
       /\ UNCHANGED <<store, watch, txn, base, report, clock, callers>>

\* time passes
TickWithin(max) ==
    /\ clock < max * TickSeconds
    /\ clock' = clock + TickSeconds
    /\ UNCHANGED <<store, last, watch, txn, base, report, cache, callers, alerts>>

Tick == TickWithin(MaxTicks)

NextThrottle ==
    \/ \E item_id \in Items, location_id \in Locations, severity \in Severities :
          ShouldSend(item_id, location_id, severity)
    \/ Tick

SpecThrottle == InitWatching({"should_send"}) /\ [][NextThrottle]_vars

\* C29: with callers that take turns, should_send answers True for a key only
\* when no earlier True for that key is younger than the key's cooldown, and
\* answers False only when one is: True at most once per cooldown window,
\* whatever was asked for keys of another item, location or severity.
OncePerWindow ==
    [][(last' # last /\ last'.op = "should_send")
       => LET key == last'.key
              within == \E i \in 1..Len(alerts[key]) :
                           clock < alerts[key][i] + cooldown_seconds(key[3])
          IN last'.ret = ~within]_vars

\* a key answered True, then again once its cooldown had passed, while another
\* key was inside its own window
SentAgainAfterCooldown ==
    /\ last.op = "should_send"
    /\ last.ret
    /\ Len(alerts[last.key]) = 2
    /\ \E other \in AlertKeys \ {last.key} :
          /\ Len(alerts[other]) = 1
          /\ clock < alerts[other][1] + cooldown_seconds(other[3])

\* the first half of should_send run by caller c beside others: cache.get, and
\* the return of False when the entry is found
CacheGet(c, item_id, location_id, severity) ==
    LET key == cache_key(item_id, location_id, severity)
    IN /\ callers[c].pc = "idle"
       /\ callers' = [callers EXCEPT ![c] =
                        IF cache_get(cache, clock, key)
                        THEN [pc |-> "done", key |-> key, ret |-> FALSE]
                        ELSE [pc |-> "set", key |-> key]]
       /\ UNCHANGED <<store, last, watch, txn, base, report, cache, clock, alerts>>

\* the second half: cache.set and the return of True
CacheSet(c) ==
    /\ callers[c].pc = "set"
    /\ LET key == callers[c].key
       IN /\ cache' = cache_set(cache, clock, key, cooldown_seconds(key[3]))
          /\ alerts' = [alerts EXCEPT ![key] = Append(@, clock)]
          /\ callers' = [callers EXCEPT ![c] = [pc |-> "done", key |-> key, ret |-> TRUE]]
    /\ UNCHANGED <<store, last, watch, txn, base, report, clock>>

NextRace ==
    \/ \E c \in Callers, item_id \in Items, location_id \in Locations,
          severity \in Severities : CacheGet(c, item_id, location_id, severity)
    \/ \E c \in Callers : CacheSet(c)
    \/ TickWithin(RaceTicks)

SpecRace == InitWatching({}) /\ [][NextRace]_vars

\* C30: however concurrent should_send calls for one key interleave, at most
\* two of them answer True within one cooldown window of that key.
AtMostOneDuplicate ==
    \A key \in AlertKeys : \A i \in 1..Len(alerts[key]) :
        Cardinality({j \in 1..Len(alerts[key]) :
                        /\ alerts[key][j] >= alerts[key][i]
                        /\ alerts[key][j] < alerts[key][i] + cooldown_seconds(key[3])}) <= 2

\* three calls for one key all answered True at the same time
ThreeAlertsAtOnce ==
    \E key \in AlertKeys :
        /\ \A c \in Callers : callers[c] = [pc |-> "done", key |-> key, ret |-> TRUE]
        /\ Len(alerts[key]) = 3
        /\ alerts[key][1] = alerts[key][3]

\* ------------------------------------------------ send_mro_daily_report
\* NotificationEvent.is_in_cooldown, asked at time t
is_in_cooldown(ev, t) == ev.cooldown_until # None /\ ev.cooldown_until > t

\* Command.handle, the transaction: get_or_create of the day's row under its
\* lock, then the decision.  now0 is the time the run read when it started, t
\* the time of the decision; go tells whether the run goes on to send.
report_gate(ev, now0, t, force) ==
    LET cooldown_until == now0 + MRO_DAILY_REPORT_COOLDOWN_HOURS * 3600
        armed == [exists |-> TRUE, status |-> PENDING, cooldown_until |-> cooldown_until]
    IN IF ~ev.exists THEN [event |-> armed, go |-> TRUE, outcome |-> PENDING]
       ELSE IF ev.status = SENT /\ ~force
            THEN [event |-> ev, go |-> FALSE, outcome |-> "already_sent"]
       ELSE IF is_in_cooldown(ev, t) /\ ~force
            THEN [event |-> [ev EXCEPT !.status = SKIPPED], go |-> FALSE,
                  outcome |-> SKIPPED]
       ELSE [event |-> armed, go |-> TRUE, outcome |-> PENDING]

InFlight(r) == runs[r].pc \notin {"idle", "done"}

\* a run starts: it reads its options and the time
StartRun(r, force) ==
    /\ runs[r].pc = "idle"
    /\ runs' = [runs EXCEPT ![r] = [pc |-> "gate", force |-> force, now |-> clock]]
    /\ UNCHANGED <<store, last, watch, txn, base, notifier, event, mails>>

\* the transaction of a run; the row lock makes it one step for the other runs
Gate(r) ==
    /\ runs[r].pc = "gate"
    /\ LET g == report_gate(event, runs[r].now, clock, runs[r].force)
       IN /\ event' = g.event
          /\ runs' = [runs EXCEPT ![r] =
                         IF g.go THEN [@ EXCEPT !.pc = "send"]
                         ELSE [pc |-> "done", force |-> @.force, now |-> @.now,
                               outcome |-> g.outcome]]
    /\ UNCHANGED <<store, last, watch, txn, base, notifier, mails>>

\* send_mail: the report is delivered, or the call raises
SendMail(r, delivered) ==
    /\ runs[r].pc = "send"
    /\ mails' = Append(mails, [at |-> clock, until |-> event.cooldown_until,
                               delivered |-> delivered])
    /\ runs' = [runs EXCEPT ![r] = [@ EXCEPT !.pc = IF delivered THEN "sent" ELSE "raised"]]
    /\ UNCHANGED <<store, last, watch, txn, base, notifier, event>>

\* the update that follows send_mail: SENT, or FAILED in the except branch
Mark(r) ==
    /\ runs[r].pc \in {"sent", "raised"}
    /\ LET status == IF runs[r].pc = "sent" THEN SENT ELSE FAILED
       IN /\ event' = [event EXCEPT !.status = status]
          /\ runs' = [runs EXCEPT ![r] = [pc |-> "done", force |-> @.force,
                                          now |-> @.now, outcome |-> status]]
    /\ UNCHANGED <<store, last, watch, txn, base, notifier, mails>>

\* time passes.  Nothing in the command limits how long a run takes between
\* its transaction and its update; timely asks that every run in flight ends
\* before the cooldown it could arm is over.
HoursPassIf(timely) ==
    /\ clock < MaxReportSteps * ReportStepHours * 3600
    /\ timely => \A r \in Runs : InFlight(r) =>
                    clock + ReportStepHours * 3600
                       < runs[r].now + MRO_DAILY_REPORT_COOLDOWN_HOURS * 3600
    /\ clock' = clock + ReportStepHours * 3600
    /\ UNCHANGED <<store, last, watch, txn, base, report, cache, callers, alerts>>

HoursPass == HoursPassIf(FALSE)

RunSteps ==
    \/ \E r \in Runs, force \in BOOLEAN : StartRun(r, force)
    \/ \E r \in Runs : Gate(r)
    \/ \E r \in Runs, delivered \in BOOLEAN : SendMail(r, delivered)
    \/ \E r \in Runs : Mark(r)

NextReport == RunSteps \/ HoursPass

SpecReport == InitWatching({}) /\ [][NextReport]_vars

\* the same runs where none outlasts a cooldown
SpecReportTimely == InitWatching({}) /\ [][RunSteps \/ HoursPassIf(TRUE)]_vars

Unforced == \A r \in Runs : runs[r].pc = "idle" \/ ~runs[r].force

\* C31: while no run is forced, at most one run of the day ends SENT and no
\* report is handed to send_mail before the cooldown window of an earlier one
\* is over; once the row is SENT nothing is sent and it stays SENT; and a run
\* whose transaction finds the row within cooldown_until sends nothing and,
\* unless the row is SENT, leaves it SKIPPED.
DailyReportOnce ==
    [][Unforced' =>
         /\ Cardinality({r \in Runs : runs'[r].pc = "done" /\ runs'[r].outcome = SENT}) <= 1
         /\ \A i \in 1..Len(mails') : \A j \in (i + 1)..Len(mails') :
                mails'[j].at >= mails'[i].until
         /\ (event.exists /\ event.status = SENT)
               => mails' = mails /\ event' = event
         /\ \A r \in Runs :
               (/\ runs[r].pc = "gate" /\ runs'[r].pc # "gate"
                /\ event.exists /\ event.cooldown_until > clock)
               => /\ runs'[r].pc = "done"
                  /\ mails' = mails
                  /\ IF event.status = SENT THEN event' = event
                     ELSE event'.status = SKIPPED /\ runs'[r].outcome = SKIPPED]_vars

\* two unforced runs of the same day both delivered the report and ended SENT
TwoReportsSent ==
    /\ Unforced
    /\ \E a, b \in Runs :
          /\ a # b
          /\ runs[a].pc = "done" /\ runs[a].outcome = SENT
          /\ runs[b].pc = "done" /\ runs[b].outcome = SENT
    /\ Cardinality({i \in 1..Len(mails) : mails[i].delivered}) = 2

\* ------------------------------------------------ two voids in flight
\* a void_movement request with what its caller has read of the original
VoidRequests ==
    {[op |-> "void_movement", id |-> id, reason |-> reason, movement |-> movements[id],
      reversed |-> has_reversal(movements, id)] :
        id \in 1..Len(movements), reason \in Reasons}

NextVoidRace ==
    \/ Quiet /\ Len(movements) < MaxOriginals
          /\ \E k \in Keys, type \in {IN_, OUT}, qty \in 1..MaxQty :
                RegisterMovement(k, type, qty)
    \/ Quiet /\ \E k \in Keys, qty \in 1..MaxQty : Reserve(k, qty)
    \/ NextTxn(VoidRequests)

SpecVoidRace == Init /\ [][NextVoidRace]_vars

\* two void_movement calls for the same original, both handed the original as
\* not void and without reversal
TwoVoidsOfOne ==
    /\ \A t \in Txns :
          /\ txn[t].req.op = "void_movement"
          /\ ~txn[t].req.movement.is_void
          /\ ~txn[t].req.reversed
    /\ txn[1].req.id = txn[2].req.id

\* C32: two void_movement calls for one original, each having read it as not
\* void, never both commit: once both have ended the original has as many
\* reversals as calls succeeded, at most one, its snapshot's on_hand has moved
\* by the inverse quantity that many times, and one call does succeed whenever
\* a void served alone would.
OneVoidCommits ==
    (AllDone /\ TwoVoidsOfOne) =>
        LET id == txn[1].req.id
            m == txn[1].req.movement
            k == <<m.item, m.location>>
            n == Cardinality({t \in Txns : txn[t].res.ok})
            inverse == IF m.movement_type = IN_ THEN 0 - m.quantity ELSE m.quantity
        IN /\ n <= 1
           /\ Cardinality({i \in 1..Len(movements) : movements[i].void_of = id}) = n
           /\ snapshots[k].on_hand = base.snap[k].on_hand + n * inverse
           /\ n = 1 => movements[id].is_void
           /\ (\E t \in Txns : run(txn[t].req, base).ok) => n = 1

\* two voids of one original overlapped: one committed, the other was refused
\* by the one-to-one link
SecondVoidRefusedByLink ==
    /\ AllDone /\ TwoVoidsOfOne
    /\ \A t \in Txns : txn[t].overlapped
    /\ \E t \in Txns : txn[t].res.ok /\ txn[Peer(t)].res = [ok |-> FALSE, err |-> "IntegrityError"]

\* C33: for every (item, location), snapshot.reserved is at least the sum of
\* the quantities of the ACTIVE work order reservations at that place, with
\* ledger reserve and release served between the work order's operations.
ReservedCoversActive ==
    \A k \in Keys :
        LET held == {i \in 1..Len(reservations) :
                        /\ reservations[i].status = ACTIVE
                        /\ <<reservations[i].item, reservations[i].location>> = k}
        IN snapshots[k].reserved >= aggregate_sum(reservations, held)

\* an ACTIVE reservation larger than all that its snapshot holds reserved: its
\* release, its consumption and the cancel of its order all raise
ActiveReservationUncovered ==
    \E i \in 1..Len(reservations) :
        /\ reservations[i].status = ACTIVE
        /\ snapshots[<<reservations[i].item, reservations[i].location>>].reserved
              < reservations[i].quantity
        /\ ~release_reservation(DB, i, None).ok
        /\ ~cancel(DB, reservations[i].work_order).ok

\* C34: a work order that is DRAFT, APPROVED or CANCELLED has no issue line;
\* one that is IN_PROGRESS, PAUSED or COMPLETED has at least one and a
\* started_at that is not null.  So wherever cancel or complete pass their
\* status check, their count of issue lines rejects nothing.
StatusTellsConsumption ==
    \A wo \in WorkOrders :
        LET issued == {i \in 1..Len(issue_lines) : issues[issue_lines[i].issue] = wo}
        IN /\ workorders[wo].status \in {DRAFT, APPROVED, CANCELLED} => issued = {}
           /\ workorders[wo].status \in {IN_PROGRESS, PAUSED, COMPLETED} =>
                 issued # {} /\ workorders[wo].started_at # 0
           /\ workorders[wo].status \in {DRAFT, APPROVED} =>
                 ~(total_consumed(DB, wo) > 0)
           /\ workorders[wo].status = IN_PROGRESS => ~(total_consumed(DB, wo) = 0)

\* a work order paused after two consumptions
PausedAfterTwoIssues ==
    \E wo \in WorkOrders :
        /\ workorders[wo].status = PAUSED
        /\ workorders[wo].started_at # 0
        /\ Cardinality({i \in 1..Len(issue_lines) : issues[issue_lines[i].issue] = wo}) = 2

\* ------------------------------------------------- two work orders
\* two DRAFT work orders, each with its line for the item
InitPair(ops) ==
    /\ snapshots = [k \in Keys |-> NoSnapshot]
    /\ movements = <<>>
    /\ workorders = [w \in OrderPair |-> [status |-> DRAFT, started_at |-> 0]]
    /\ wo_lines = [l \in OrderPair \X Items |->
                     [exists |-> TRUE, qty_reserved |-> 0, qty_consumed |-> 0,
                      qty_returned |-> 0]]
    /\ reservations = <<>> /\ issues = <<>> /\ issue_lines = <<>>
    /\ returns = <<>> /\ return_lines = <<>>
    /\ last = Unwatched /\ watch = ops
    /\ txn = [t \in Txns |-> Idle]
    /\ base = DB
    /\ InitNotifier
    /\ InitReport

NextPair ==
    \/ Len(movements) < MaxSetup
          /\ \E k \in Keys, qty \in 1..MaxQty : RegisterMovement(k, IN_, qty)
    \/ \E line \in OrderPair \X Items, qty \in 1..MaxQty, location \in Locations :
          WoReserve(line, qty, location)
    \/ \E wo \in OrderPair : Approve(wo)
    \/ \E wo \in OrderPair, ln \in OrderLineInputs : Consume(wo, <<ln>>)

SpecPair == InitPair({"consume"}) /\ [][NextPair]_vars

\* C35: a consume on work order W that names a reservation of another work
\* order is rejected, and no consume on W changes a reservation or a line's
\* qty_reserved of another work order.
ConsumeDrawsOwnReservations ==
    [][(last' # last /\ last'.op = "consume") =>
         LET W == last'.wo
         IN /\ (\E i \in 1..Len(last'.lines) :
                   /\ last'.lines[i].reservation \in 1..Len(reservations)
                   /\ reservations[last'.lines[i].reservation].work_order # W)
                => ~last'.res.ok
            /\ \A i \in 1..Len(reservations) :
                   reservations[i].work_order # W => reservations'[i] = reservations[i]
            /\ \A l \in DOMAIN wo_lines :
                   l[1] # W => wo_lines'[l].qty_reserved = wo_lines[l].qty_reserved]_vars

\* a consume on one work order succeeded on the reservation of the other, which
\* is left CONSUMED with its line's qty_reserved back at 0
ConsumedAnothersReservation ==
    /\ last.op = "consume" /\ last.res.ok
    /\ \E i \in 1..Len(last.lines) :
          LET id == last.lines[i].reservation
          IN /\ id \in 1..Len(reservations)
             /\ reservations[id].work_order # last.wo
             /\ reservations[id].status = CONSUMED
             /\ wo_lines[reservations[id].line].qty_reserved = 0

\* ------------------------------------------------- snapshot against the log
\* the movements of one type recorded for a key, originals and reversals alike
MovementsAt(k, type) ==
    {i \in 1..Len(movements) : /\ movements[i].item = k[1]
                               /\ movements[i].location = k[2]
                               /\ movements[i].movement_type = type}

\* C36: for every (item, location) with no ADJ movement, on_hand is the sum of
\* the IN movements minus the sum of the OUT movements recorded for the pair,
\* reversal movements counted like any other.
SnapshotReconcilesWithLog ==
    \A k \in Keys :
        MovementsAt(k, ADJ) = {} =>
            (IF snapshots[k].exists THEN snapshots[k].on_hand ELSE 0)
              = aggregate_sum(movements, MovementsAt(k, IN_))
                  - aggregate_sum(movements, MovementsAt(k, OUT))

\* a pair whose log holds a voided receipt, its OUT reversal and a later
\* movement, with stock left on hand
ReconciledAfterVoid ==
    \E k \in Keys :
        /\ snapshots[k].exists /\ snapshots[k].on_hand > 0
        /\ \E i \in MovementsAt(k, IN_), j \in MovementsAt(k, OUT) :
              /\ movements[i].is_void
              /\ movements[j].void_of = i
              /\ Len(movements) > j

\* ------------------------------------------------- after a cancellation
SpecCancelled ==
    InitOrders({"wo_reserve", "consume", "return_to_stock"}) /\ [][NextReturn]_vars

\* the work order a recorded stock request is about
RequestOrder(request) == IF request.op = "wo_reserve" THEN request.line[1] ELSE request.wo

\* C37: a CANCELLED work order stays CANCELLED and holds no ACTIVE reservation
\* in any later state, and a reserve, consume or returnToStock on it is
\* rejected and leaves every snapshot as it was.
CancelledHoldsNoStock ==
    [][\A wo \in WorkOrders :
          workorders[wo].status = CANCELLED =>
              /\ workorders'[wo].status = CANCELLED
              /\ \A i \in 1..Len(reservations') :
                    reservations'[i].work_order = wo => reservations'[i].status # ACTIVE
              /\ (/\ last' # last
                  /\ last'.op \in {"wo_reserve", "consume", "return_to_stock"}
                  /\ RequestOrder(last') = wo)
                 => (~last'.res.ok /\ snapshots' = snapshots)]_vars

\* a work order that had reserved stock was cancelled, its reservation is
\* RELEASED, and a valid reserve on it has just been refused
ReserveRefusedAfterCancel ==
    /\ last.op = "wo_reserve" /\ ~last.res.ok
    /\ last.qty > 0 /\ last.location # 0
    /\ snapshots[<<last.line[2], last.location>>].exists
    /\ available(snapshots[<<last.line[2], last.location>>]) >= last.qty
    /\ workorders[last.line[1]].status = CANCELLED
    /\ \E i \in 1..Len(reservations) :
          /\ reservations[i].work_order = last.line[1]
          /\ reservations[i].status = RELEASED

\* ------------------------------------------------- completed work orders
\* C38: a COMPLETED work order holds no ACTIVE reservation.
CompletedHoldsNoReservation ==
    \A wo \in WorkOrders :
        workorders[wo].status = COMPLETED =>
            \A i \in 1..Len(reservations) :
                reservations[i].work_order = wo => reservations[i].status # ACTIVE

\* a COMPLETED work order with an ACTIVE reservation whose quantity is still
\* counted in the snapshot's reserved
CompletedStillReserving ==
    \E wo \in WorkOrders, i \in 1..Len(reservations) :
        /\ workorders[wo].status = COMPLETED
        /\ reservations[i].work_order = wo
        /\ reservations[i].status = ACTIVE
        /\ snapshots[<<reservations[i].item, reservations[i].location>>].reserved
             >= reservations[i].quantity

\* ------------------------------------------------- returned against consumed
\* C39: on every work order line, qty_returned never exceeds qty_consumed.
ReturnedWithinConsumed ==
    \A l \in DOMAIN wo_lines :
        wo_lines[l].exists => wo_lines[l].qty_returned <= wo_lines[l].qty_consumed

\* an accepted returnToStock left a line with more returned than consumed
ReturnedMoreThanConsumed ==
    /\ last.op = "return_to_stock" /\ last.res.ok
    /\ \E l \in DOMAIN wo_lines :
          /\ l[1] = last.wo
          /\ wo_lines[l].exists
          /\ wo_lines[l].qty_consumed > 0
          /\ wo_lines[l].qty_returned > wo_lines[l].qty_consumed

\* ------------------------------------------------- work order requests at once
\* reserve, releaseReservation, consume and cancel on the work order's line
\* and its snapshots
HoldRequests ==
    [op : {"wo_reserve"}, line : WorkOrders \X Items, qty : {LineQty}, location : Locations]
      \cup [op : {"release_reservation"}, id : 1..MaxRes, qty : {None, LineQty}]
      \cup [op : {"consume"}, wo : WorkOrders, lines : {<<ln>> : ln \in LineInputs}]
      \cup [op : {"cancel"}, wo : WorkOrders]

\* stock is received and reserved and the work order approved by requests
\* served alone, then two of the requests are served at the same time
NextHoldRace ==
    \/ SetupOpen /\ \E k \in Keys, qty \in 1..MaxQty : RegisterMovement(k, IN_, qty)
    \/ Quiet /\ \E line \in WorkOrders \X Items, qty \in 1..MaxQty,
                    location \in Locations : WoReserve(line, qty, location)
    \/ Quiet /\ \E wo \in WorkOrders : Approve(wo)
    \/ NextTxn(HoldRequests)

SpecHoldRace == Init /\ [][NextHoldRace]_vars

=============================================================================
